---- MODULE Spec2Model ----
(***************************************************************************)
(* Model of the authoritative multiplayer server of "Dive, Laugh, Love"    *)
(* (server.js): the room registry, the message dispatcher, the broadcast   *)
(* fan-out and the inlined turn/round engine.                              *)
(*                                                                         *)
(* JavaScript arrays are 0-based; the model keeps them as TLA+ sequences   *)
(* and reads them through ChipAt / PlayerAt, so that every index, seat     *)
(* number and board position below is the 0-based number of the source.    *)
(* null / undefined are the records Null, NoState, or the values 0, "" and *)
(* FALSE where the source only tests truthiness.                           *)
(***************************************************************************)
EXTENDS Integers, Sequences, FiniteSets, TLC

(* ---------------------------------------------------------------------- *)
(* Game constants                                                          *)
(* ---------------------------------------------------------------------- *)
MIN_PLAYERS == 2
MAX_PLAYERS == 6
TOTAL_ROUNDS == 3
STARTING_OXYGEN == 25
CHIP_LEVELS ==
  << 1,1,1,1,1,1,1,1,
     2,2,2,2,2,2,2,2,
     3,3,3,3,3,3,3,3,
     4,4,4,4,4,4,4,4 >>
LEVEL_VALUE_RANGES == << <<0,3>>, <<4,7>>, <<8,11>>, <<12,15>> >>
DEPTH_CHARGES_PER_ROUND == 1
DEPTH_CHARGE_OXYGEN_COST == 3
ANCHOR_COST == 3
ANCHOR_MULTIPLIER == 5
COOP_TREASURE_PER_PLAYER == 30
COOP_BOMB_COST == 20

(* ---------------------------------------------------------------------- *)
(* Bounds of the model                                                     *)
(* ---------------------------------------------------------------------- *)
\* Number of messages the server handles in one behaviour.
MaxMessages == 2
\* Connections (WebSocket objects).
MaxConns == 3
Conns == 1..MaxConns
\* Room codes generateCode can draw.
MaxCodes == 1
Codes == 1..MaxCodes
\* Player names after (msg.name || default).slice(0, 12).
Names == {"A", "B", "C"}
\* randInt(lo, hi) of a chip's value is lo + vo, the same vo for every chip
\* of a game, vo drawn from this set.
ValueOffsets == {0, 3}
\* Values a client can put in payload.direction; "" is a payload without it.
Directions == {"down", "up", ""}
\* rollDie: Math.floor(Math.random() * 3) + 1
DieFaces == {1, 2, 3}
\* Math.ceil(Math.random() * 6)
TridentRolls == {1, 2, 3, 4, 5, 6}

BOARD_SIZE == Len(CHIP_LEVELS)

\* F applied to the value of v: a `const x = v` whose value is computed once
Bind(v, F(_)) == CHOOSE r \in { F(x) : x \in { v } } : TRUE

Max(a, b) == IF a >= b THEN a ELSE b

(* ---------------------------------------------------------------------- *)
(* Game state factory                                                      *)
(* ---------------------------------------------------------------------- *)
\* chips[i] === null
Null == [null |-> TRUE]

\* createChips, with every randInt(lo, hi) resolved to lo + vo
createChips(vo) ==
  [k \in 1..Len(CHIP_LEVELS) |->
     LET level == CHIP_LEVELS[k]
         lo == LEVEL_VALUE_RANGES[level][1]
     IN [id |-> k - 1, level |-> level, value |-> lo + vo,
         discovered |-> FALSE, monster |-> FALSE]]

createPlayer(id, name) ==
  [id |-> id, name |-> name, position |-> -1, direction |-> "down",
   carried |-> <<>>, scored |-> <<>>, drowned |-> FALSE,
   dead |-> FALSE, depthCharges |-> DEPTH_CHARGES_PER_ROUND,
   anchorActive |-> FALSE, bombs |-> 0]

\* createGameState; the co-op fields, absent (undefined) in a versus state,
\* are present with the values the source's truthiness tests read.
createGameState(playerNames, vo) ==
  [round |-> 1, maxRounds |-> TOTAL_ROUNDS, oxygen |-> STARTING_OXYGEN,
   boardSize |-> BOARD_SIZE, chips |-> createChips(vo),
   players |-> [k \in 1..Len(playerNames) |-> createPlayer(k - 1, playerNames[k])],
   currentPlayerIndex |-> 0, turnPhase |-> "direction", diceResult |-> 0,
   roundOver |-> FALSE, gameOver |-> FALSE, winner |-> "",
   anchorUsedThisRoll |-> FALSE,
   coop |-> FALSE, mission |-> "", coopScore |-> 0, coopTarget |-> 0,
   monstersRemaining |-> 0, coopWin |-> FALSE, coopLose |-> FALSE,
   bombCost |-> 0]

\* createMonsterChips: monsterCount chips, spread evenly over the tiles
\* 6 .. chips.length - 3, are replaced by sea monsters; Math.round(a / b)
\* of non-negative integers is (2a + b) \div 2b.  The level 'monster' is
\* written 0.
MonsterPositions(monsterCount) ==
  LET lo == 6
      hi == Len(CHIP_LEVELS) - 3
      span == hi - lo
  IN { lo + ((2 * span * i + (monsterCount + 1)) \div (2 * (monsterCount + 1))) :
         i \in 1..monsterCount }

createMonsterChips(monsterCount, vo) ==
  [k \in 1..Len(CHIP_LEVELS) |->
     IF (k - 1) \in MonsterPositions(monsterCount)
     THEN [id |-> k - 1, level |-> 0, value |-> 0, discovered |-> TRUE, monster |-> TRUE]
     ELSE createChips(vo)[k]]

createCoopGameState(playerNames, mission, vo) ==
  [createGameState(playerNames, vo) EXCEPT
     !.chips = IF mission = "monsters"
               THEN createMonsterChips(Len(playerNames), vo) ELSE createChips(vo),
     !.coop = TRUE,
     !.mission = mission,
     !.coopScore = 0,
     !.coopTarget = IF mission = "treasure"
                    THEN COOP_TREASURE_PER_PLAYER * Len(playerNames) ELSE 0,
     !.monstersRemaining = IF mission = "monsters" THEN Len(playerNames) ELSE 0,
     !.coopWin = FALSE,
     !.coopLose = FALSE,
     !.bombCost = COOP_BOMB_COST]

(* ---------------------------------------------------------------------- *)
(* Rule helpers                                                            *)
(* ---------------------------------------------------------------------- *)
\* state.chips[i] and state.players[i] with the source's 0-based index
ChipAt(chips, i) == chips[i + 1]
PlayerAt(s, i) == s.players[i + 1]
CurrentPlayer(s) == PlayerAt(s, s.currentPlayerIndex)
NumPlayers(s) == Len(s.players)
Seats(s) == 0..(NumPlayers(s) - 1)

RECURSIVE SumValues(_)
SumValues(cs) == IF cs = <<>> THEN 0 ELSE Head(cs).value + SumValues(Tail(cs))

oxygenCost(player) == Len(player.carried)
\* An oxygen meter that is not stopped at 0
consumeOxygenUnclamped(oxygen, player) == oxygen - oxygenCost(player)
consumeOxygen(oxygen, player) == Max(0, oxygen - oxygenCost(player))
isOnSubmarine(player) == player.position = -1

\* The two while loops of computeDestination; monsterPositions = {} stands
\* for the null of every mode but the monsters mission.
RECURSIVE WalkDown(_, _, _, _, _)
WalkDown(pos, remaining, occupiedPositions, boardSize, monsterPositions) ==
  IF remaining <= 0 THEN pos
  ELSE LET next == pos + 1 IN
       IF next >= boardSize THEN boardSize - 1
       ELSE IF next \in monsterPositions THEN pos
       ELSE IF next \in occupiedPositions
            THEN WalkDown(next, remaining, occupiedPositions, boardSize, monsterPositions)
            ELSE WalkDown(next, remaining - 1, occupiedPositions, boardSize, monsterPositions)

RECURSIVE WalkUp(_, _, _, _)
WalkUp(pos, remaining, occupiedPositions, monsterPositions) ==
  IF remaining <= 0 THEN pos
  ELSE LET next == pos - 1 IN
       IF next < 0 THEN -1
       ELSE IF next \in monsterPositions THEN pos
       ELSE IF next \in occupiedPositions
            THEN WalkUp(next, remaining, occupiedPositions, monsterPositions)
            ELSE WalkUp(next, remaining - 1, occupiedPositions, monsterPositions)

\* A walk on which every tile costs a step, whoever stands on it
computeDestinationCountsAll(currentPos, steps, direction, occupiedPositions, boardSize, monsterPositions) ==
  IF direction = "down"
  THEN (IF currentPos + steps >= boardSize THEN boardSize - 1 ELSE currentPos + steps)
  ELSE (IF currentPos - steps < 0 THEN -1 ELSE currentPos - steps)

computeDestination(currentPos, steps, direction, occupiedPositions, boardSize, monsterPositions) ==
  IF direction = "down"
  THEN WalkDown(currentPos, steps, occupiedPositions, boardSize, monsterPositions)
  ELSE WalkUp(currentPos, steps, occupiedPositions, monsterPositions)

occupiedBy(players, excludeId) ==
  {players[k].position : k \in {j \in 1..Len(players) :
       players[j].id # excludeId /\ players[j].position >= 0 /\ ~players[j].dead}}

canPickUp(player, chips) ==
  player.position >= 0 /\ ChipAt(chips, player.position) # Null

canDrop(player, chips) ==
  Len(player.carried) > 0 /\ player.position >= 0 /\ ChipAt(chips, player.position) = Null

canBuyAnchor(player) ==
  IF player.position # -1 \/ player.anchorActive THEN FALSE
  ELSE SumValues(player.scored) >= ANCHOR_COST

\* A test that sells the anchor whatever the pool holds
canBuyAnchorCoopOnCredit(player, coopScore) ==
  IF player.position # -1 \/ player.anchorActive THEN FALSE ELSE TRUE

canBuyAnchorCoop(player, coopScore) ==
  IF player.position # -1 \/ player.anchorActive THEN FALSE
  ELSE coopScore >= ANCHOR_COST

\* A test that lets a player detonate without a charge left
canDepthChargeAgain(player, chips, oxygen) ==
  IF player.position < 0 THEN FALSE
  ELSE IF ChipAt(chips, player.position) = Null THEN FALSE
  ELSE oxygen >= DEPTH_CHARGE_OXYGEN_COST

canDepthCharge(player, chips, oxygen) ==
  IF player.position < 0 \/ player.depthCharges <= 0 THEN FALSE
  ELSE IF ChipAt(chips, player.position) = Null THEN FALSE
  ELSE oxygen >= DEPTH_CHARGE_OXYGEN_COST

canBuyBomb(player, coopScore) ==
  IF player.position # -1 THEN FALSE ELSE coopScore >= COOP_BOMB_COST

IsMonster(chips, i) == ChipAt(chips, i) # Null /\ ChipAt(chips, i).monster

canUseBomb(player, chips) ==
  IF player.position < 0 THEN FALSE
  ELSE IF player.bombs <= 0 THEN FALSE
  ELSE LET pos == player.position
           ahead == pos + 1 < Len(chips) /\ IsMonster(chips, pos + 1)
           behind == pos - 1 >= 0 /\ IsMonster(chips, pos - 1)
       IN ahead \/ behind

canPickUpCoop(player, chips) ==
  IF player.position < 0 THEN FALSE
  ELSE LET chip == ChipAt(chips, player.position) IN
       IF chip = Null THEN FALSE
       ELSE IF chip.monster THEN FALSE
       ELSE TRUE

\* A board on which no sea monster is seen
getMonsterPositionsNone(chips) == {}

getMonsterPositions(chips) ==
  {i \in 0..(Len(chips) - 1) : IsMonster(chips, i)}

allPlayersOnSub(players) ==
  \A k \in 1..Len(players) : ~players[k].dead => players[k].position = -1

\* A round that ends only when the oxygen is gone
isRoundOverOxygenOnly(oxygen, players, coop) == oxygen <= 0

\* A round that ends in every mode once everybody is back
isRoundOverAllSafe(oxygen, players, coop) ==
  IF oxygen <= 0 THEN TRUE
  ELSE \A k \in 1..Len(players) : ~players[k].dead => players[k].position = -1

isRoundOver(oxygen, players, coop) ==
  IF oxygen <= 0 THEN TRUE
  ELSE IF coop THEN FALSE
  ELSE \A k \in 1..Len(players) : ~players[k].dead => players[k].position = -1

\* resolveTridentRoll, for the drawn roll
resolveTridentRoll(roll) ==
  IF roll >= 5 THEN "kill" ELSE IF roll = 1 THEN "backfire" ELSE "miss"

(* ---------------------------------------------------------------------- *)
(* Turn engine.  The source mutates the state in place and appends to      *)
(* state.log; an operator here returns the mutated state and the entries   *)
(* it appended, as [st |-> ..., log |-> ...].                              *)
(* ---------------------------------------------------------------------- *)
LogEntry(tag, who, n) == [tag |-> tag, who |-> who, n |-> n]

rollDice(d1, d2) == [die1 |-> d1, die2 |-> d2, total |-> d1 + d2]
DiceTotals == {rollDice(d1, d2).total : d1 \in DieFaces, d2 \in DieFaces}
\* The two dice of one roll, as the pair of their faces in ascending order:
\* the handlers read the total only
DicePairs == { d \in DieFaces \X DieFaces : d[1] <= d[2] }

playerScore(player) == SumValues(player.scored)

\* A winner that is the first seat whatever the scores
determineWinnerFirstSeat(s) == [s EXCEPT !.winner = s.players[1].name]

\* determineWinner: the loop keeps the first player with the strictly
\* greatest score, starting from best = -1.
RECURSIVE WinnerLoop(_, _, _, _)
WinnerLoop(players, k, best, winnerName) ==
  IF k > Len(players) THEN winnerName
  ELSE IF playerScore(players[k]) > best
       THEN WinnerLoop(players, k + 1, playerScore(players[k]), players[k].name)
       ELSE WinnerLoop(players, k + 1, best, winnerName)

determineWinner(s) == [s EXCEPT !.winner = WinnerLoop(s.players, 1, -1, "")]

\* A kill that leaves the victim's chips in its hand
killPlayerKeepsCarried(s, seat) ==
  LET player == PlayerAt(s, seat) IN
  [st |-> [s EXCEPT !.players[seat + 1] =
                 [player EXCEPT !.dead = TRUE, !.position = -99]],
   log |-> IF Len(player.carried) > 0
           THEN << LogEntry("loses-carried", player.name, Len(player.carried)) >>
           ELSE <<>>]

\* killPlayer(state, player), the player given by its seat
killPlayer(s, seat) ==
  LET player == PlayerAt(s, seat) IN
  [st |-> [s EXCEPT !.players[seat + 1] =
                 [player EXCEPT !.carried = <<>>, !.dead = TRUE, !.position = -99]],
   log |-> IF Len(player.carried) > 0
           THEN << LogEntry("loses-carried", player.name, Len(player.carried)) >>
           ELSE <<>>]

\* The while loop of advancePlayer
RECURSIVE AdvanceLoop(_, _, _, _)
AdvanceLoop(s, next, attempts, log) ==
  IF attempts < NumPlayers(s)
  THEN LET n2 == (next + 1) % NumPlayers(s) IN
       IF PlayerAt(s, n2).dead
       THEN AdvanceLoop(s, n2, attempts + 1,
                        Append(log, LogEntry("dead-skipped", PlayerAt(s, n2).name, n2)))
       ELSE [next |-> n2, log |-> log]
  ELSE [next |-> next, log |-> log]

\* A turn that passes to the next seat whether its player lives or not
advancePlayerNoSkip(s) ==
  [st |-> [s EXCEPT !.currentPlayerIndex = (s.currentPlayerIndex + 1) % NumPlayers(s)],
   log |-> <<>>]

advancePlayer(s) ==
  LET r == AdvanceLoop(s, s.currentPlayerIndex, 0, <<>>) IN
  [st |-> [s EXCEPT !.currentPlayerIndex = r.next], log |-> r.log]

\* A round reset that leaves the chips in the hands of the players
ResetPlayerKeepsCarried(p) ==
  [p EXCEPT !.position = -1, !.direction = "down", !.dead = FALSE,
            !.depthCharges = DEPTH_CHARGES_PER_ROUND, !.anchorActive = FALSE]

\* A round reset that leaves a bought anchor active
ResetPlayerKeepsAnchor(p) ==
  [p EXCEPT !.carried = IF p.position >= 0 THEN <<>> ELSE p.carried,
            !.position = -1, !.direction = "down", !.dead = FALSE,
            !.depthCharges = DEPTH_CHARGES_PER_ROUND]

\* The per-player loop of endRound (lines 278-285)
ResetPlayer(p) ==
  [p EXCEPT !.carried = IF p.position >= 0 THEN <<>> ELSE p.carried,
            !.position = -1, !.direction = "down", !.dead = FALSE,
            !.depthCharges = DEPTH_CHARGES_PER_ROUND, !.anchorActive = FALSE]

\* A compaction that leaves every chip the id it had
CompactChipsKeepsIds(chips) ==
  LET NotNull(c) == c # Null IN SelectSeq(chips, NotNull)

\* Board compaction of endRound (lines 286-288)
CompactChips(chips) ==
  LET NotNull(c) == c # Null
      remainingChips == SelectSeq(chips, NotNull)
  IN [k \in 1..Len(remainingChips) |-> [remainingChips[k] EXCEPT !.id = k - 1]]

CountMonsters(chips) == Cardinality(getMonsterPositions(chips))

\* endRound up to the co-op checks: players reset, board compacted
ResetRound(s) ==
  Bind(CompactChips(s.chips),
       LAMBDA chips1 :
         [s EXCEPT !.players = [k \in 1..Len(s.players) |-> ResetPlayer(s.players[k])],
                   !.chips = chips1,
                   !.boardSize = Len(chips1),
                   !.monstersRemaining = IF s.coop /\ s.mission = "monsters"
                                         THEN CountMonsters(chips1)
                                         ELSE s.monstersRemaining])

\* A treasure mission that is complete only above its target
TreasureHauledAbove(s2) ==
  s2.coop /\ s2.mission = "treasure" /\ s2.coopScore > s2.coopTarget

\* A treasure mission that the end of the last round completes
TreasureHauledAtLast(s2) ==
  /\ s2.coop /\ s2.mission = "treasure"
  /\ (s2.coopScore >= s2.coopTarget \/ s2.round >= s2.maxRounds)

\* The treasure check of endRound (lines 291-292)
TreasureHauled(s2) ==
  s2.coop /\ s2.mission = "treasure" /\ s2.coopScore >= s2.coopTarget

\* A round that the seat whose turn ended the last one starts
RoundStarterStays(s2) == s2.currentPlayerIndex

\* state.round += 1; state.currentPlayerIndex = (state.round - 1) %
\* state.players.length (lines 326-327)
RoundStarter(s2) == (s2.round + 1 - 1) % NumPlayers(s2)

\* endRound from the co-op checks on, s2 the state ResetRound built
CloseRound(s2, log0) ==
  IF TreasureHauled(s2)
  THEN [st |-> [s2 EXCEPT !.gameOver = TRUE, !.coopWin = TRUE, !.turnPhase = "gameOver"],
        log |-> Append(log0, LogEntry("mission-complete", "", s2.coopScore))]
  ELSE IF /\ s2.coop /\ s2.mission = "monsters" /\ s2.monstersRemaining = 0
          /\ \A k \in 1..Len(s2.players) : s2.players[k].position = -1
  THEN [st |-> [s2 EXCEPT !.gameOver = TRUE, !.coopWin = TRUE, !.turnPhase = "gameOver"],
        log |-> Append(log0, LogEntry("mission-complete", "", 0))]
  ELSE IF s2.round >= s2.maxRounds
  THEN IF s2.coop
       THEN [st |-> [s2 EXCEPT !.gameOver = TRUE, !.turnPhase = "gameOver", !.coopLose = TRUE],
             log |-> Append(log0, LogEntry("mission-failed", "",
                                   IF s2.mission = "treasure" THEN s2.coopScore
                                   ELSE CountMonsters(s2.chips)))]
       ELSE Bind(determineWinner([s2 EXCEPT !.gameOver = TRUE, !.turnPhase = "gameOver"]),
                 LAMBDA s3 :
                   [st |-> s3, log |-> Append(log0, LogEntry("game-over", s3.winner, 0))])
  ELSE LET cur == RoundStarter(s2)
       IN [st |-> [s2 EXCEPT !.round = s2.round + 1, !.oxygen = STARTING_OXYGEN,
                             !.currentPlayerIndex = cur,
                             !.turnPhase = "direction", !.diceResult = 0],
           log |-> Append(log0, LogEntry("round-begins", PlayerAt(s2, cur).name,
                                         s2.round + 1))]

endRound(s) ==
  LET Loses(p) == p.position >= 0 /\ Len(p.carried) > 0
      losers == SelectSeq(s.players, Loses)
      log0 == << LogEntry("round-over", "", s.round) >>
              \o [k \in 1..Len(losers) |->
                    LogEntry("underwater-loses", losers[k].name, Len(losers[k].carried))]
  IN Bind(ResetRound(s), LAMBDA s2 : CloseRound(s2, log0))

endTurn(s) ==
  IF isRoundOver(s.oxygen, s.players, s.coop) THEN endRound(s)
  ELSE Bind(advancePlayer(s),
            LAMBDA r : [st |-> [r.st EXCEPT !.turnPhase = "direction"], log |-> r.log])

(* ---------------------------------------------------------------------- *)
(* Action handlers.  Each returns [ok, st, ev, log]: ok = FALSE is the     *)
(* source's `return null`, st the state as the handler left it (the        *)
(* source mutates room.state in place, so whatever a handler changed       *)
(* before returning null would stay changed), ev the event object.         *)
(* ---------------------------------------------------------------------- *)
NoLastEvent == [type |-> "", player |-> <<>>]
NoKill == [victim |-> "", killer |-> "", backfire |-> FALSE]
\* The event object {}; an absent key is 0, "", FALSE or the records above.
NoEvent ==
  [diceTotal |-> 0, lastEvent |-> NoLastEvent, oxygenDepleted |-> FALSE,
   oxygenLow |-> FALSE, returnedToSub |-> FALSE, lastAnchor |-> "",
   lastSkip |-> FALSE, lastKill |-> NoKill, tridentMiss |-> FALSE,
   lastExplosion |-> ""]

LastEvent(type, player) == [type |-> type, player |-> player]

Rejected(s) == [ok |-> FALSE, st |-> s, ev |-> NoEvent, log |-> <<>>]
Accepted(s, ev, log) == [ok |-> TRUE, st |-> s, ev |-> ev, log |-> log]

\* if (state.gameOver) { coopWin / coopLose / gameOver } after endTurn
GameOverEvent(s, ev) ==
  IF s.gameOver
  THEN IF s.coopWin THEN [ev EXCEPT !.lastEvent = LastEvent("coopWin", <<"Team">>)]
       ELSE IF s.coopLose THEN [ev EXCEPT !.lastEvent = LastEvent("coopLose", <<"Team">>)]
       ELSE [ev EXCEPT !.lastEvent = LastEvent("gameOver", <<s.winner>>)]
  ELSE ev

\* the same without the final else (handleUseBomb, handleEndRoundEarly)
GameOverEventCoop(s, ev) ==
  IF s.gameOver
  THEN IF s.coopWin THEN [ev EXCEPT !.lastEvent = LastEvent("coopWin", <<"Team">>)]
       ELSE IF s.coopLose THEN [ev EXCEPT !.lastEvent = LastEvent("coopLose", <<"Team">>)]
       ELSE ev
  ELSE ev

\* state.turnPhase = 'endTurn'; endTurn(state); if (state.gameOver) { ... }
\* as the handlers that close a turn all end
FinishTurn(s1, event, log) ==
  Bind(endTurn([s1 EXCEPT !.turnPhase = "endTurn"]),
       LAMBDA r : Accepted(r.st, GameOverEvent(r.st, event), log \o r.log))

SetCurrent(s, player) == [s EXCEPT !.players[s.currentPlayerIndex + 1] = player]

\* A bank that loses the chip picked up first
BankCarriedButFirst(s1, moved) ==
  IF s1.coop
  THEN [SetCurrent(s1, [moved EXCEPT !.carried = <<>>])
          EXCEPT !.coopScore = s1.coopScore + SumValues(SubSeq(moved.carried, 2, Len(moved.carried)))]
  ELSE SetCurrent(s1, [moved EXCEPT !.scored = moved.scored \o SubSeq(moved.carried, 2, Len(moved.carried)),
                                   !.carried = <<>>])

\* The player that came back banks what it carries: into the shared pool
\* (co-op) or its own scored chips (lines 447-455)
BankCarried(s1, moved) ==
  IF s1.coop
  THEN [SetCurrent(s1, [moved EXCEPT !.carried = <<>>])
          EXCEPT !.coopScore = s1.coopScore + SumValues(moved.carried)]
  ELSE SetCurrent(s1, [moved EXCEPT !.scored = moved.scored \o moved.carried,
                                   !.carried = <<>>])

\* A step count that the chips in hand do not lower
effectiveStepsUnweighted(adjustedTotal, player) == Max(1, adjustedTotal)

\* const effectiveSteps = Math.max(1, adjustedTotal - player.carried.length)
effectiveSteps(adjustedTotal, player) == Max(1, adjustedTotal - Len(player.carried))

handleRoll(s, d1, d2) ==
  IF s.turnPhase # "roll" THEN Rejected(s)
  ELSE
  LET total == rollDice(d1, d2).total
      player == CurrentPlayer(s)
      occupied == occupiedBy(s.players, player.id)
      adjustedTotal == IF player.anchorActive THEN total * ANCHOR_MULTIPLIER ELSE total
      monsters == IF s.coop /\ s.mission = "monsters"
                  THEN getMonsterPositions(s.chips) ELSE {}
      event == [NoEvent EXCEPT !.diceTotal = total]
  IN
  Bind(computeDestination(player.position, effectiveSteps(adjustedTotal, player),
                          player.direction, occupied, s.boardSize, monsters),
       LAMBDA dest :
  LET moved == [player EXCEPT !.anchorActive = FALSE, !.position = dest]
      s1 == [SetCurrent(s, moved) EXCEPT !.diceResult = total,
                                         !.anchorUsedThisRoll = (adjustedTotal # total)]
  IN
  IF dest = -1
  THEN LET ev1 == [event EXCEPT !.lastEvent = LastEvent("returnSub", <<player.name>>)]
       IN Bind(endTurn([BankCarried(s1, moved) EXCEPT !.turnPhase = "endTurn"]),
               LAMBDA r :
                 Accepted(r.st,
                          [GameOverEvent(r.st, ev1) EXCEPT !.returnedToSub = TRUE],
                          << LogEntry("returned", player.name, total) >> \o r.log))
  ELSE Accepted([s1 EXCEPT !.turnPhase = "pickup"], event,
                << LogEntry("lands", player.name, dest) >>))

handleChooseDirection(s, payloadDirection, d1, d2) ==
  IF s.turnPhase # "direction" THEN Rejected(s)
  ELSE
  LET player0 == CurrentPlayer(s)
      direction == IF player0.position = -1 THEN "down" ELSE payloadDirection
      player == [player0 EXCEPT !.direction = direction]
      s1 == [SetCurrent(s, player) EXCEPT !.turnPhase = "roll"]
      log1 == << LogEntry("chooses", player.name, 0) >>
  IN
  Bind(IF ~isOnSubmarine(player)
       THEN [s1 EXCEPT !.oxygen = consumeOxygen(s1.oxygen, player)] ELSE s1,
       LAMBDA s2 :
  LET log2 == IF ~isOnSubmarine(player) /\ Len(player.carried) > 0
              THEN Append(log1, LogEntry("uses-oxygen", player.name, s2.oxygen)) ELSE log1
  IN
  IF s2.oxygen <= 0
  THEN LET OnBoard(p) == p.position >= 0 /\ ~p.dead
           divers == SelectSeq(s2.players, OnBoard)
           drowned == [k \in 1..Len(divers) |-> divers[k].name]
       IN
       Bind(endTurn([s2 EXCEPT !.turnPhase = "endTurn"]),
            LAMBDA r :
       LET ev1 == IF r.st.gameOver THEN GameOverEvent(r.st, NoEvent)
                  ELSE IF Len(drowned) > 0
                       THEN [NoEvent EXCEPT !.lastEvent = LastEvent("drown", drowned)]
                       ELSE [NoEvent EXCEPT !.lastEvent = LastEvent("roundEnd", <<>>)]
           ev2 == [ev1 EXCEPT !.oxygenDepleted = TRUE]
           log3 == log2 \o r.log
       IN \* Auto-roll only if the phase is still 'roll'
          IF r.st.turnPhase = "roll"
          THEN Bind(handleRoll(r.st, d1, d2),
                    LAMBDA rr :
                      Accepted(rr.st,
                               [ev2 EXCEPT !.diceTotal = rr.ev.diceTotal,
                                           !.lastEvent = IF rr.ev.lastEvent # NoLastEvent
                                                         THEN rr.ev.lastEvent
                                                         ELSE ev2.lastEvent,
                                           !.returnedToSub = rr.ev.returnedToSub],
                               log3 \o rr.log))
          ELSE Accepted(r.st, ev2, log3))
  ELSE LET ev1 == IF s2.oxygen <= 5 THEN [NoEvent EXCEPT !.oxygenLow = TRUE] ELSE NoEvent
       IN Bind(handleRoll(s2, d1, d2),
               LAMBDA rr :
                 Accepted(rr.st,
                          [ev1 EXCEPT !.diceTotal = rr.ev.diceTotal,
                                      !.lastEvent = rr.ev.lastEvent,
                                      !.returnedToSub = rr.ev.returnedToSub],
                          log2 \o rr.log)))

\* Array.prototype.sort((a, b) => a.value - b.value): a stable sort
RECURSIVE InsertByValue(_, _)
InsertByValue(sorted, c) ==
  IF sorted = <<>> THEN << c >>
  ELSE IF Head(sorted).value <= c.value
       THEN << Head(sorted) >> \o InsertByValue(Tail(sorted), c)
       ELSE << c >> \o sorted

RECURSIVE SortByValue(_)
SortByValue(cs) ==
  IF cs = <<>> THEN <<>>
  ELSE InsertByValue(SortByValue(SubSeq(cs, 1, Len(cs) - 1)), cs[Len(cs)])

\* The while loop of handleBuyAnchor (lines 414-418)
RECURSIVE SpendLoop(_, _)
SpendLoop(scored, remaining) ==
  IF remaining > 0 /\ Len(scored) > 0
  THEN LET chip == Head(scored) IN
       IF chip.value <= remaining
       THEN SpendLoop(Tail(scored), remaining - chip.value)
       ELSE SpendLoop(<< [chip EXCEPT !.value = chip.value - remaining] >> \o Tail(scored), 0)
  ELSE scored

\* A purchase that is not tied to the direction phase
handleBuyAnchorAnyPhase(s) ==
  LET player == CurrentPlayer(s) IN
  IF s.coop
  THEN IF ~canBuyAnchorCoop(player, s.coopScore) THEN Rejected(s)
       ELSE Accepted([SetCurrent(s, [player EXCEPT !.anchorActive = TRUE])
                        EXCEPT !.coopScore = s.coopScore - ANCHOR_COST],
                     [NoEvent EXCEPT !.lastAnchor = player.name],
                     << LogEntry("anchor", player.name, s.coopScore - ANCHOR_COST) >>)
  ELSE IF ~canBuyAnchor(player) THEN Rejected(s)
       ELSE Accepted(SetCurrent(s, [player EXCEPT
                                      !.scored = SpendLoop(SortByValue(player.scored), ANCHOR_COST),
                                      !.anchorActive = TRUE]),
                     [NoEvent EXCEPT !.lastAnchor = player.name],
                     << LogEntry("anchor", player.name, ANCHOR_COST) >>)

handleBuyAnchor(s) ==
  IF s.turnPhase # "direction" THEN Rejected(s)
  ELSE
  LET player == CurrentPlayer(s) IN
  IF s.coop
  THEN IF ~canBuyAnchorCoop(player, s.coopScore) THEN Rejected(s)
       ELSE Accepted([SetCurrent(s, [player EXCEPT !.anchorActive = TRUE])
                        EXCEPT !.coopScore = s.coopScore - ANCHOR_COST],
                     [NoEvent EXCEPT !.lastAnchor = player.name],
                     << LogEntry("anchor", player.name, s.coopScore - ANCHOR_COST) >>)
  ELSE IF ~canBuyAnchor(player) THEN Rejected(s)
       ELSE Accepted(SetCurrent(s, [player EXCEPT
                                      !.scored = SpendLoop(SortByValue(player.scored), ANCHOR_COST),
                                      !.anchorActive = TRUE]),
                     [NoEvent EXCEPT !.lastAnchor = player.name],
                     << LogEntry("anchor", player.name, ANCHOR_COST) >>)

\* state.chips[i] = c
SetChip(s, i, c) == [s EXCEPT !.chips[i + 1] = c]

\* A pick-up that leaves the chip on its tile as well
handlePickUpCopies(s) ==
  IF s.turnPhase # "pickup" THEN Rejected(s)
  ELSE
  LET player == CurrentPlayer(s)
      pickCheck == IF s.coop THEN canPickUpCoop(player, s.chips)
                   ELSE canPickUp(player, s.chips)
  IN
  IF ~pickCheck THEN Rejected(s)
  ELSE
  LET chip == [ChipAt(s.chips, player.position) EXCEPT !.discovered = TRUE]
  IN FinishTurn(SetCurrent(s, [player EXCEPT !.carried = Append(player.carried, chip)]),
                [NoEvent EXCEPT !.lastEvent = LastEvent("pickup", <<player.name>>)],
                << LogEntry("picks-up", player.name, player.position) >>)

handlePickUp(s) ==
  IF s.turnPhase # "pickup" THEN Rejected(s)
  ELSE
  LET player == CurrentPlayer(s)
      pickCheck == IF s.coop THEN canPickUpCoop(player, s.chips)
                   ELSE canPickUp(player, s.chips)
  IN
  IF ~pickCheck THEN Rejected(s)
  ELSE
  LET chip == [ChipAt(s.chips, player.position) EXCEPT !.discovered = TRUE]
  IN FinishTurn(SetChip(SetCurrent(s, [player EXCEPT !.carried = Append(player.carried, chip)]),
                        player.position, Null),
                [NoEvent EXCEPT !.lastEvent = LastEvent("pickup", <<player.name>>)],
                << LogEntry("picks-up", player.name, player.position) >>)

\* A drop that takes the chip out of the player's hand before it has checked
\* that the tile is free
handleDropPopsFirst(s) ==
  IF s.turnPhase # "pickup" THEN Rejected(s)
  ELSE
  LET player == CurrentPlayer(s) IN
  IF player.position < 0 \/ Len(player.carried) = 0 THEN Rejected(s)
  ELSE
  LET chip == player.carried[Len(player.carried)]
      popped == [player EXCEPT !.carried = SubSeq(player.carried, 1, Len(player.carried) - 1)]
  IN IF ~canDrop(player, s.chips) THEN Rejected(SetCurrent(s, popped))
     ELSE FinishTurn(SetChip(SetCurrent(s, popped), player.position, chip),
                     [NoEvent EXCEPT !.lastEvent = LastEvent("drop", <<player.name>>)],
                     << LogEntry("drops", player.name, player.position) >>)

\* A drop that marks the turn ended and leaves it there
handleDropRests(s) ==
  IF s.turnPhase # "pickup" THEN Rejected(s)
  ELSE
  LET player == CurrentPlayer(s) IN
  IF ~canDrop(player, s.chips) THEN Rejected(s)
  ELSE
  LET chip == player.carried[Len(player.carried)]
      popped == [player EXCEPT !.carried = SubSeq(player.carried, 1, Len(player.carried) - 1)]
  IN Accepted([SetChip(SetCurrent(s, popped), player.position, chip)
                 EXCEPT !.turnPhase = "endTurn"],
              [NoEvent EXCEPT !.lastEvent = LastEvent("drop", <<player.name>>)],
              << LogEntry("drops", player.name, player.position) >>)

\* A drop that lays down the chip picked up first
handleDropOldest(s) ==
  IF s.turnPhase # "pickup" THEN Rejected(s)
  ELSE
  LET player == CurrentPlayer(s) IN
  IF ~canDrop(player, s.chips) THEN Rejected(s)
  ELSE
  LET chip == Head(player.carried)
      popped == [player EXCEPT !.carried = Tail(player.carried)]
  IN FinishTurn(SetChip(SetCurrent(s, popped), player.position, chip),
                [NoEvent EXCEPT !.lastEvent = LastEvent("drop", <<player.name>>)],
                << LogEntry("drops", player.name, player.position) >>)

handleDrop(s) ==
  IF s.turnPhase # "pickup" THEN Rejected(s)
  ELSE
  LET player == CurrentPlayer(s) IN
  IF ~canDrop(player, s.chips) THEN Rejected(s)
  ELSE
  LET chip == player.carried[Len(player.carried)]
      popped == [player EXCEPT !.carried = SubSeq(player.carried, 1, Len(player.carried) - 1)]
  IN FinishTurn(SetChip(SetCurrent(s, popped), player.position, chip),
                [NoEvent EXCEPT !.lastEvent = LastEvent("drop", <<player.name>>)],
                << LogEntry("drops", player.name, player.position) >>)

\* A skip that is refused once the oxygen is nearly gone
handleSkipBreathing(s) ==
  IF s.turnPhase # "pickup" \/ s.oxygen < DEPTH_CHARGE_OXYGEN_COST THEN Rejected(s)
  ELSE FinishTurn(s, [NoEvent EXCEPT !.lastSkip = TRUE], <<>>)

handleSkip(s) ==
  IF s.turnPhase # "pickup" THEN Rejected(s)
  ELSE FinishTurn(s, [NoEvent EXCEPT !.lastSkip = TRUE], <<>>)

\* state.players.find(p => p.id === targetId): the seat of the first such
\* player, or -1 for undefined
FindTarget(s, targetId) ==
  IF \E k \in 1..Len(s.players) : s.players[k].id = targetId
  THEN (CHOOSE k \in 1..Len(s.players) :
          /\ s.players[k].id = targetId
          /\ \A j \in 1..(k - 1) : s.players[j].id # targetId) - 1
  ELSE -1

handleTrident(s, targetId, roll) ==
  IF s.turnPhase # "pickup" THEN Rejected(s)
  ELSE
  LET attacker == CurrentPlayer(s)
      targetSeat == FindTarget(s, targetId)
  IN
  IF targetSeat = -1 THEN Rejected(s)
  ELSE IF PlayerAt(s, targetSeat).dead \/ PlayerAt(s, targetSeat).position < 0 THEN Rejected(s)
  ELSE
  LET target == PlayerAt(s, targetSeat)
      result == resolveTridentRoll(roll)
      event == IF result = "kill"
               THEN [NoEvent EXCEPT !.lastKill =
                       [victim |-> target.name, killer |-> attacker.name, backfire |-> FALSE]]
               ELSE IF result = "backfire"
               THEN [NoEvent EXCEPT !.lastKill =
                       [victim |-> attacker.name, killer |-> target.name, backfire |-> TRUE]]
               ELSE [NoEvent EXCEPT !.tridentMiss = TRUE]
  IN Bind(IF result = "kill" THEN killPlayer(s, targetSeat)
          ELSE IF result = "backfire" THEN killPlayer(s, s.currentPlayerIndex)
          ELSE [st |-> s, log |-> <<>>],
          LAMBDA k :
            FinishTurn(k.st, event,
                       << LogEntry("trident-" \o result, attacker.name, roll) >> \o k.log))

\* A depth charge that leaves the turn with the player
handleDepthChargeKeepsTurn(s) ==
  IF s.turnPhase # "pickup" THEN Rejected(s)
  ELSE
  LET player == CurrentPlayer(s) IN
  IF ~canDepthCharge(player, s.chips, s.oxygen) THEN Rejected(s)
  ELSE
  LET oxygen1 == Max(0, s.oxygen - DEPTH_CHARGE_OXYGEN_COST)
  IN Accepted([SetChip(SetCurrent(s, [player EXCEPT
                                        !.depthCharges = player.depthCharges - 1]),
                       player.position, Null)
                 EXCEPT !.oxygen = oxygen1],
              [NoEvent EXCEPT !.lastExplosion = player.name],
              << LogEntry("depth-charge", player.name, oxygen1) >>)

handleDepthCharge(s) ==
  IF s.turnPhase # "pickup" THEN Rejected(s)
  ELSE
  LET player == CurrentPlayer(s) IN
  IF ~canDepthCharge(player, s.chips, s.oxygen) THEN Rejected(s)
  ELSE
  LET oxygen1 == Max(0, s.oxygen - DEPTH_CHARGE_OXYGEN_COST)
  IN FinishTurn([SetChip(SetCurrent(s, [player EXCEPT
                                          !.depthCharges = player.depthCharges - 1]),
                         player.position, Null)
                   EXCEPT !.oxygen = oxygen1],
                [NoEvent EXCEPT !.lastExplosion = player.name],
                << LogEntry("depth-charge", player.name, oxygen1) >>)

handleBuyBomb(s) ==
  IF ~s.coop \/ s.turnPhase # "direction" THEN Rejected(s)
  ELSE
  LET player == CurrentPlayer(s) IN
  IF ~canBuyBomb(player, s.coopScore) THEN Rejected(s)
  ELSE Accepted([SetCurrent(s, [player EXCEPT !.bombs = player.bombs + 1])
                   EXCEPT !.coopScore = s.coopScore - COOP_BOMB_COST],
                [NoEvent EXCEPT !.lastEvent = LastEvent("bomb-buy", <<player.name>>)],
                << LogEntry("buys-bomb", player.name, s.coopScore - COOP_BOMB_COST) >>)

handleUseBomb(s) ==
  IF ~s.coop \/ s.turnPhase # "pickup" THEN Rejected(s)
  ELSE
  LET player == CurrentPlayer(s) IN
  IF ~canUseBomb(player, s.chips) THEN Rejected(s)
  ELSE
  LET pos == player.position
      targetPos == IF pos + 1 < s.boardSize /\ IsMonster(s.chips, pos + 1) THEN pos + 1
                   ELSE IF pos - 1 >= 0 /\ IsMonster(s.chips, pos - 1) THEN pos - 1
                   ELSE -1
  IN
  IF targetPos = -1 THEN Rejected(s)
  ELSE
  Bind(SetChip(SetCurrent(s, [player EXCEPT !.bombs = player.bombs - 1]), targetPos, Null),
       LAMBDA s1 :
  Bind(endTurn([s1 EXCEPT !.monstersRemaining = CountMonsters(s1.chips),
                          !.turnPhase = "endTurn"]),
       LAMBDA r :
         Accepted(r.st,
                  GameOverEventCoop(r.st, [NoEvent EXCEPT !.lastExplosion = player.name]),
                  << LogEntry("bombs-monster", player.name, targetPos) >> \o r.log)))

\* A stay on the submarine that is allowed while nobody has dived
handleSkipSubTurnAlone(s) ==
  IF s.turnPhase # "direction" THEN Rejected(s)
  ELSE
  LET player == CurrentPlayer(s) IN
  IF player.position # -1 THEN Rejected(s)
  ELSE FinishTurn(s, [NoEvent EXCEPT !.lastSkip = TRUE],
                  << LogEntry("stays", player.name, 0) >>)

handleSkipSubTurn(s) ==
  IF s.turnPhase # "direction" THEN Rejected(s)
  ELSE
  LET player == CurrentPlayer(s) IN
  IF player.position # -1 THEN Rejected(s)
  ELSE IF \A k \in 1..Len(s.players) : ~s.players[k].dead => s.players[k].position = -1
       THEN Rejected(s)
  ELSE FinishTurn(s, [NoEvent EXCEPT !.lastSkip = TRUE],
                  << LogEntry("stays", player.name, 0) >>)

handleEndRoundEarly(s) ==
  IF ~s.coop \/ s.turnPhase # "direction" THEN Rejected(s)
  ELSE IF ~allPlayersOnSub(s.players) THEN Rejected(s)
  ELSE
  Bind(endRound(s),
       LAMBDA r :
         Accepted(r.st,
                  IF r.st.gameOver THEN GameOverEventCoop(r.st, NoEvent)
                  ELSE [NoEvent EXCEPT !.lastEvent = LastEvent("roundEnd", <<>>)],
                  << LogEntry("end-round-early", "", 0) >> \o r.log))

\* ACTION_HANDLERS[msg.action](room.state, msg.payload || {}), with the
\* random draws of the handler given as d1, d2 (rollDie) and roll (trident)
ActionKinds ==
  {"choose-direction", "buy-anchor", "roll", "pick-up", "drop", "skip",
   "skip-sub-turn", "end-round-early", "trident", "depth-charge",
   "buy-bomb", "use-bomb"}

ACTION_HANDLERS(kind, s, payload, d1, d2, roll) ==
  CASE kind = "choose-direction" -> handleChooseDirection(s, payload.direction, d1, d2)
    [] kind = "buy-anchor"       -> handleBuyAnchor(s)
    [] kind = "roll"             -> handleRoll(s, d1, d2)
    [] kind = "pick-up"          -> handlePickUp(s)
    [] kind = "drop"             -> handleDrop(s)
    [] kind = "skip"             -> handleSkip(s)
    [] kind = "skip-sub-turn"    -> handleSkipSubTurn(s)
    [] kind = "end-round-early"  -> handleEndRoundEarly(s)
    [] kind = "trident"          -> handleTrident(s, payload.targetId, roll)
    [] kind = "depth-charge"     -> handleDepthCharge(s)
    [] kind = "buy-bomb"         -> handleBuyBomb(s)
    [] kind = "use-bomb"         -> handleUseBomb(s)

(* ---------------------------------------------------------------------- *)
(* Room management and the WebSocket server                                *)
(* ---------------------------------------------------------------------- *)
VARIABLES
  rooms,       \* the Map `rooms`, as the sequence of its rooms in insertion order
  readyState,  \* ws.readyState of every connection: 1 OPEN, 2 CLOSING, 3 CLOSED
  sent,        \* per connection, the messages ws.send was given by the last handler
  logged,      \* the entries the last handler appended to its room's state.log
  handled,     \* the number of events (messages, closes) handled so far
  received     \* the event the last handler was run for: the parsed message and
               \* the connection it came from, or the connection's close

vars == << rooms, readyState, sent, logged, handled, received >>

OPEN == 1
CLOSING == 2
CLOSED == 3

\* room.state === null
NoState == [null |-> TRUE]

NoneSent == [c \in Conns |-> <<>>]

\* rooms.has(code), rooms.get(code)
RoomCodes == {rooms[k].code : k \in 1..Len(rooms)}
RoomIndex(code) == CHOOSE k \in 1..Len(rooms) : rooms[k].code = code

\* roomForWs: index of the first room, in iteration order, whose clients
\* map has ws; 0 for null
roomForWs(ws) ==
  IF \E k \in 1..Len(rooms) : ws \in DOMAIN rooms[k].clients
  THEN CHOOSE k \in 1..Len(rooms) :
         /\ ws \in DOMAIN rooms[k].clients
         /\ \A j \in 1..(k - 1) : ws \notin DOMAIN rooms[j].clients
  ELSE 0

\* send(ws, msg) appended to what `out` already holds
send(out, ws, msg) ==
  IF readyState[ws] = OPEN THEN [out EXCEPT ![ws] = Append(out[ws], msg)] ELSE out

\* A broadcast that tells every client the seat of the current player
broadcastStateCurrentSeat(out, room, event) ==
  [c \in Conns |->
     IF c \in DOMAIN room.clients
     THEN send(out, c, [type |-> "state", state |-> room.state,
                        playerId |-> room.state.currentPlayerIndex, event |-> event])[c]
     ELSE out[c]]

\* broadcastState(room, event): one send per entry of room.clients
broadcastState(out, room, event) ==
  [c \in Conns |->
     IF c \in DOMAIN room.clients
     THEN send(out, c, [type |-> "state", state |-> room.state,
                        playerId |-> room.clients[c].playerId, event |-> event])[c]
     ELSE out[c]]

broadcastLobby(out, room) ==
  [c \in Conns |->
     IF c \in DOMAIN room.clients
     THEN send(out, c, [type |-> "lobby", code |-> room.code, names |-> room.names,
                        you |-> room.clients[c].name, coop |-> room.coop,
                        mission |-> room.mission])[c]
     ELSE out[c]]

ErrorMsg(message) == [type |-> "error", message |-> message]

\* m with the key k removed / set (Map.delete, Map.set)
MapDelete(m, k) == [x \in DOMAIN m \ {k} |-> m[x]]
MapSet(m, k, v) == [x \in DOMAIN m \cup {k} |-> IF x = k THEN v ELSE m[x]]

RemoveAt(seq, k) == SubSeq(seq, 1, k - 1) \o SubSeq(seq, k + 1, Len(seq))

\* One more event, m, is handled (the model follows the server for MaxMessages
\* events)
Tick(m) ==
  /\ handled < MaxMessages
  /\ handled' = handled + 1
  /\ received' = m

\* case 'create'; code is what generateCode() returns: a code not in rooms
Create(ws, name, coop, mission, code) ==
  /\ Tick([type |-> "create", ws |-> ws, name |-> name, coop |-> coop, mission |-> mission])
  /\ readyState[ws] = OPEN
  /\ code \notin RoomCodes
  /\ LET room == [code |-> code, host |-> ws,
                  clients |-> (ws :> [name |-> name, playerId |-> 0]),
                  names |-> << name >>, state |-> NoState, started |-> FALSE,
                  coop |-> coop, mission |-> mission]
     IN /\ rooms' = Append(rooms, room)
        /\ sent' = broadcastLobby(send(NoneSent, ws, [type |-> "created", code |-> code]), room)
  /\ logged' = <<>>
  /\ UNCHANGED readyState

\* A roster search that never finds the name
InSeqNever(seq, x) == FALSE

InSeq(seq, x) == \E k \in 1..Len(seq) : seq[k] = x

\* case 'join'
Join(ws, code, name) ==
  /\ Tick([type |-> "join", ws |-> ws, code |-> code, name |-> name])
  /\ readyState[ws] = OPEN
  /\ logged' = <<>>
  /\ UNCHANGED readyState
  /\ IF code \notin RoomCodes
     THEN /\ sent' = send(NoneSent, ws, ErrorMsg("Room not found."))
          /\ UNCHANGED rooms
     ELSE LET k == RoomIndex(code)
              room == rooms[k]
          IN IF room.started
             THEN /\ sent' = send(NoneSent, ws, ErrorMsg("Game already started."))
                  /\ UNCHANGED rooms
             ELSE IF Len(room.names) >= MAX_PLAYERS
             THEN /\ sent' = send(NoneSent, ws, ErrorMsg("Room is full."))
                  /\ UNCHANGED rooms
             ELSE IF InSeq(room.names, name)
             THEN /\ sent' = send(NoneSent, ws, ErrorMsg("Name already taken."))
                  /\ UNCHANGED rooms
             ELSE LET playerId == Len(room.names)
                      room1 == [room EXCEPT
                                  !.names = Append(room.names, name),
                                  !.clients = MapSet(room.clients, ws,
                                                     [name |-> name, playerId |-> playerId])]
                  IN /\ rooms' = [rooms EXCEPT ![k] = room1]
                     /\ sent' = broadcastLobby(NoneSent, room1)

\* The state a 'start' or a 'restart' builds (lines 822-831 and 869-878)
NewGame(room, vo) ==
  IF room.coop /\ room.mission # ""
  THEN createCoopGameState(room.names, room.mission, vo)
  ELSE createGameState(room.names, vo)

NewGameLog(room) ==
  IF room.coop /\ room.mission # ""
  THEN << LogEntry("coop-mission", room.mission, 0), LogEntry("round-1-begins", "", STARTING_OXYGEN) >>
  ELSE << LogEntry("round-1-begins", "", STARTING_OXYGEN) >>

\* case 'start'
Start(ws, vo) ==
  /\ Tick([type |-> "start", ws |-> ws])
  /\ readyState[ws] = OPEN
  /\ UNCHANGED readyState
  /\ LET k == roomForWs(ws) IN
     IF k = 0
     THEN /\ sent' = NoneSent /\ logged' = <<>> /\ UNCHANGED rooms
     ELSE LET room == rooms[k] IN
          IF ws # room.host
          THEN /\ sent' = send(NoneSent, ws, ErrorMsg("Only the host can start."))
               /\ logged' = <<>> /\ UNCHANGED rooms
          ELSE IF Len(room.names) < MIN_PLAYERS
          THEN /\ sent' = send(NoneSent, ws, ErrorMsg("Need at least 2 players."))
               /\ logged' = <<>> /\ UNCHANGED rooms
          ELSE LET room1 == [room EXCEPT !.state = NewGame(room, vo), !.started = TRUE]
               IN /\ rooms' = [rooms EXCEPT ![k] = room1]
                  /\ logged' = NewGameLog(room)
                  /\ sent' = broadcastState(NoneSent, room1, NoEvent)

\* case 'restart'
Restart(ws, vo) ==
  /\ Tick([type |-> "restart", ws |-> ws])
  /\ readyState[ws] = OPEN
  /\ UNCHANGED readyState
  /\ LET k == roomForWs(ws) IN
     IF k = 0
     THEN /\ sent' = NoneSent /\ logged' = <<>> /\ UNCHANGED rooms
     ELSE LET room == rooms[k] IN
          IF ws # room.host
          THEN /\ sent' = NoneSent /\ logged' = <<>> /\ UNCHANGED rooms
          ELSE LET room1 == [room EXCEPT !.state = NewGame(room, vo)]
               IN /\ rooms' = [rooms EXCEPT ![k] = room1]
                  /\ logged' = NewGameLog(room)
                  /\ sent' = broadcastState(NoneSent, room1, NoEvent)

\* A turn check that lets the host act at any time
NotYourTurnUnlessHost(room, ws) ==
  /\ ws # room.host
  /\ room.clients[ws].playerId # room.state.currentPlayerIndex

\* Only the current player can act:
\* info.playerId !== room.state.currentPlayerIndex
NotYourTurn(room, ws) ==
  room.clients[ws].playerId # room.state.currentPlayerIndex

\* case 'action'
Action(ws, kind, payload, d1, d2, roll) ==
  /\ Tick([type |-> "action", ws |-> ws, action |-> kind, payload |-> payload])
  /\ readyState[ws] = OPEN
  /\ UNCHANGED readyState
  /\ LET k == roomForWs(ws) IN
     IF k = 0 \/ (k # 0 /\ (~rooms[k].started \/ rooms[k].state = NoState))
     THEN /\ sent' = NoneSent /\ logged' = <<>> /\ UNCHANGED rooms
     ELSE LET room == rooms[k]
          IN IF NotYourTurn(room, ws)
             THEN /\ sent' = send(NoneSent, ws, ErrorMsg("Not your turn."))
                  /\ logged' = <<>> /\ UNCHANGED rooms
             ELSE IF kind \notin ActionKinds
             THEN /\ sent' = send(NoneSent, ws, ErrorMsg("Unknown action."))
                  /\ logged' = <<>> /\ UNCHANGED rooms
             ELSE \E r \in { ACTION_HANDLERS(kind, room.state, payload, d1, d2, roll) } :
                  \E room1 \in { [room EXCEPT !.state = r.st] } :
                     /\ rooms' = [rooms EXCEPT ![k] = room1]
                     /\ logged' = r.log
                     /\ IF ~r.ok
                        THEN sent' = send(NoneSent, ws, ErrorMsg("Invalid action."))
                        ELSE sent' = broadcastState(NoneSent, room1, r.ev)

\* removeClient(ws), run by the 'close' and 'error' handlers
removeClient(ws) ==
  LET k == roomForWs(ws) IN
  IF k = 0
  THEN /\ sent' = NoneSent /\ UNCHANGED rooms
  ELSE LET room == rooms[k]
           info == room.clients[ws]
           clients1 == MapDelete(room.clients, ws)
       IN IF DOMAIN clients1 = {}
          THEN /\ rooms' = RemoveAt(rooms, k)
               /\ sent' = NoneSent
          ELSE IF ~room.started
          THEN LET NotLeaver(n) == n # info.name
                   room1 == [room EXCEPT !.clients = clients1,
                                         !.names = SelectSeq(room.names, NotLeaver)]
               IN /\ rooms' = [rooms EXCEPT ![k] = room1]
                  /\ sent' = [c \in Conns |->
                               IF c \in DOMAIN clients1 /\ c # ws
                               THEN broadcastLobby(NoneSent, room1)[c] ELSE <<>>]
          ELSE LET room1 == [room EXCEPT !.clients = clients1]
               IN /\ rooms' = [rooms EXCEPT ![k] = room1]
                  /\ sent' = [c \in Conns |->
                               IF c \in DOMAIN clients1 /\ c # ws /\ readyState[c] = OPEN
                               THEN << [type |-> "player-disconnected", name |-> info.name] >>
                               ELSE <<>>]

\* The connection starts closing: readyState leaves OPEN before the 'close'
\* event is emitted.
Disconnect(ws) ==
  /\ Tick([type |-> "closing", ws |-> ws])
  /\ readyState[ws] = OPEN
  /\ readyState' = [readyState EXCEPT ![ws] = CLOSING]
  /\ sent' = NoneSent
  /\ logged' = <<>>
  /\ UNCHANGED rooms

\* ws.on('close', () => removeClient(ws))
Close(ws) ==
  /\ Tick([type |-> "close", ws |-> ws])
  /\ readyState[ws] \in {OPEN, CLOSING}
  /\ readyState' = [readyState EXCEPT ![ws] = CLOSED]
  /\ logged' = <<>>
  /\ removeClient(ws)

(* ---------------------------------------------------------------------- *)
(* One action per kind of 'action' message                                 *)
(* ---------------------------------------------------------------------- *)
\* msg.payload || {}
Payload(direction, targetId) == [direction |-> direction, targetId |-> targetId]
NoPayload == Payload("", -1)

\* Values a client can put in payload.targetId: the first two seats and an
\* id no player has
TargetIds == {0, 1, 7}

\* (msg.coop || false, msg.mission || null) of a 'create' message
Modes == { <<FALSE, "">>, <<TRUE, "">>, <<TRUE, "treasure">>, <<TRUE, "monsters">> }

ChooseDirection(ws, direction, d1, d2) ==
  Action(ws, "choose-direction", Payload(direction, -1), d1, d2, 1)
BuyAnchor(ws) == Action(ws, "buy-anchor", NoPayload, 1, 1, 1)
\* handleRoll tests the phase before it draws, and no game rests in the phase
\* 'roll' (PhaseRests below): the dice of a 'roll' message are never drawn
Roll(ws, d1, d2) == Action(ws, "roll", NoPayload, d1, d2, 1)
PickUp(ws) == Action(ws, "pick-up", NoPayload, 1, 1, 1)
Drop(ws) == Action(ws, "drop", NoPayload, 1, 1, 1)
Skip(ws) == Action(ws, "skip", NoPayload, 1, 1, 1)
SkipSubTurn(ws) == Action(ws, "skip-sub-turn", NoPayload, 1, 1, 1)
EndRoundEarly(ws) == Action(ws, "end-round-early", NoPayload, 1, 1, 1)
Trident(ws, targetId, roll) == Action(ws, "trident", Payload("", targetId), 1, 1, roll)
DepthCharge(ws) == Action(ws, "depth-charge", NoPayload, 1, 1, 1)
BuyBomb(ws) == Action(ws, "buy-bomb", NoPayload, 1, 1, 1)
UseBomb(ws) == Action(ws, "use-bomb", NoPayload, 1, 1, 1)
UnknownAction(ws) == Action(ws, "unknown", NoPayload, 1, 1, 1)

(* ---------------------------------------------------------------------- *)
(* Starting points.  A complete game is far longer than a model checker    *)
(* can enumerate, so a behaviour starts either at the empty server or in   *)
(* a room whose game has been played up to a given point: the room that    *)
(* create / join / start build for two clients, and the game state that    *)
(* the handlers above produce from the fresh state for a fixed script of   *)
(* accepted actions.                                                       *)
(* ---------------------------------------------------------------------- *)
Msg(kind, direction, d1, d2) ==
  [kind |-> kind, payload |-> Payload(direction, -1), d1 |-> d1, d2 |-> d2, roll |-> 1]

\* The state after the messages script[i], script[i+1], ... are handled
RECURSIVE RunFrom(_, _, _)
RunFrom(s, script, i) ==
  IF i > Len(script) THEN s
  ELSE CHOOSE t \in { RunFrom(s1, script, i + 1) :
                        s1 \in { ACTION_HANDLERS(script[i].kind, s, script[i].payload,
                                                 script[i].d1, script[i].d2,
                                                 script[i].roll).st } } : TRUE

RunScript(s, script) ==
  CHOOSE t \in { RunFrom(s0, sc, 1) : s0 \in { s }, sc \in { script } } : TRUE

RECURSIVE Rep(_, _)
Rep(script, n) == IF n = 0 THEN <<>> ELSE script \o Rep(script, n - 1)

Down2 == Msg("choose-direction", "down", 1, 1)
Down6 == Msg("choose-direction", "down", 3, 3)
Up2 == Msg("choose-direction", "up", 1, 1)
Up3 == Msg("choose-direction", "up", 1, 2)
Up6 == Msg("choose-direction", "up", 3, 3)
DoPick == Msg("pick-up", "", 1, 1)
DoSkip == Msg("skip", "", 1, 1)
DoSkipSub == Msg("skip-sub-turn", "", 1, 1)
DoEndRound == Msg("end-round-early", "", 1, 1)
DoCharge == Msg("depth-charge", "", 1, 1)

\* Versus, round 1: both players have dived two tiles and picked a chip up.
VersusFresh == createGameState(<< "A", "B" >>, 3)
VersusCarry == RunScript(VersusFresh, << Down2, DoPick, Down2, DoPick >>)

\* A dives on and picks a chip up on every turn, B on every turn from its
\* fourth: oxygen 1 is left, A carries seven chips and B, to move, three.
ScriptDeepStart == Rep(<< Down2, DoPick, Down2, DoSkip >>, 3)
ScriptDeepEnd == Rep(<< Down2, DoPick >>, 7)
VersusDeep == RunScript(VersusFresh, ScriptDeepStart)
VersusNearDrown == RunScript(VersusDeep, ScriptDeepEnd)

\* A round in which both players dive, pick nothing up and come back.
ScriptEmptyRound == << Down2, DoSkip, Down2, DoSkip, Up2, Up3 >>
\* Versus, the last round, played like the one above.
VersusRound2 == RunScript(VersusFresh, ScriptEmptyRound)
VersusRound3 == RunScript(VersusRound2, ScriptEmptyRound)
VersusLastDeep == RunScript(VersusRound3, ScriptDeepStart)
\* The last round: A has come back with nothing, B is on tile 1 with the
\* chips of tiles 2 and 1 and is to move.
VersusLastHaul ==
  RunScript(VersusRound3, << Down2, DoSkip, Down2, DoPick, Up3, Up2, DoPick, DoSkipSub >>)
VersusLastNearDrown == RunScript(VersusLastDeep, ScriptDeepEnd)

\* Co-op treasure hunt: one player dives to the last tile and brings two
\* chips back to tile 0 while the other stays on the submarine.
ScriptDive == Rep(<< Down6, DoSkip, DoSkipSub >>, 4) \o << Down6, DoPick, DoSkipSub >>
ScriptClimb == << Up6, DoPick, DoSkipSub >> \o Rep(<< Up6, DoSkip, DoSkipSub >>, 6)
CoopFresh == createCoopGameState(<< "A", "B" >>, "treasure", 3)
CoopDive == RunScript(CoopFresh, ScriptDive)
CoopHaul == RunScript(CoopDive, ScriptClimb)
\* ... returns, the round is ended early, and a second haul is made.
CoopRound2 == RunScript(CoopHaul, << Up6, DoEndRound >>)
CoopDive2 == RunScript(CoopRound2, ScriptDive)
\* ... or the second round is ended at once: the last round, pool 30 of 60.
CoopRound3 == RunScript(CoopRound2, << DoEndRound >>)
CoopHaul2 == RunScript(CoopDive2, ScriptClimb)

\* Co-op monster hunt, round 1: A has picked the chip of tile 1 up and B
\* has stayed on the submarine.
MonstersFresh == createCoopGameState(<< "A", "B" >>, "monsters", 3)
MonstersCarry == RunScript(MonstersFresh, << Down2, DoPick, DoSkipSub >>)

\* Co-op monster hunt, round 1: A has brought three chips back (pool 21),
\* has bought a bomb and stands on tile 12; B stands on tile 13, just above
\* the sea monster of tile 14; A is to move.
MonstersArmed ==
  RunScript(RunScript(MonstersFresh,
                      << Down6, DoSkip, DoSkipSub, Down6, DoPick, DoSkipSub >>
                      \o Rep(<< Up2, DoPick, DoSkipSub >>, 2)
                      \o Rep(<< Up6, DoSkip, DoSkipSub >>, 3) \o << Up6 >>),
            << Down2, DoSkip, Msg("buy-bomb", "", 1, 1), Down6, DoSkip, Down6, DoSkip,
               Msg("choose-direction", "down", 2, 3), DoSkip,
               Msg("choose-direction", "down", 1, 3), DoSkip >>)

\* Versus, round 1: A has blown up the chip of tile 1 with its depth charge
\* and has come back; B, on tile 2 with nothing in hand, is to move.
VersusCharged ==
  RunScript(VersusFresh, << Down2, DoCharge, Down2, DoSkip, Up3 >>)

\* Co-op treasure hunt, round 1: both players have dived, A has slain B with
\* the trident (roll 5) and, alone on the board on tile 4, is to move.
CoopLastDiver ==
  RunScript(CoopFresh,
            << Down2, DoSkip, Down2, DoSkip, Down2,
               [Msg("trident", "", 1, 1) EXCEPT !.payload.targetId = 1, !.roll = 5] >>)

\* Co-op treasure hunt, round 1: after slaying B, A has dived on and has
\* turned the trident on itself (roll 1); nobody is left alive, and A is
\* still the current player.
CoopAllLost ==
  RunScript(CoopLastDiver,
            << Down2, [Msg("trident", "", 1, 1) EXCEPT !.payload.targetId = 0, !.roll = 1] >>)

\* Versus: both players dive six steps a turn and pick nothing up; A stands
\* on the last tile and B, on tile 27, is to move.
VersusBottom == RunScript(VersusFresh, Rep(<< Down6, DoSkip >>, 9))

\* Versus, round 1, pickup phase: A, who blew a chip up on its first turn,
\* has just landed on tile 26 with four chips in hand; B carries two chips
\* and still has its charge; oxygen 5.
VersusThinAir ==
  RunScript(VersusFresh,
            << Down6, DoCharge, Down6, DoPick, Down6, DoPick, Down6, DoPick >>
            \o Rep(<< Down6, DoPick, Down6, DoSkip >>, 3) \o << Down6 >>)

\* Versus, round 1, pickup phase: B has blown a chip up, both have picked a
\* chip up on every turn since, and A, with its charge, has just landed on
\* the chip of tile 23; oxygen 1.
VersusLastBreath ==
  RunScript(VersusFresh,
            << Down6, DoPick, Down6, DoCharge >>
            \o Rep(<< Down6, DoPick, Down6, DoPick >>, 4) \o << Down6 >>)

\* Versus, round 1: A has brought the chip of tile 11 (level 2) back and is
\* to move; B stands on tile 9.
VersusBanked ==
  RunScript(VersusFresh,
            << Down6, DoSkip, Down2, DoSkip, Down6, DoPick, Down2, DoSkip >>
            \o Rep(<< Up6, DoSkip, Down2, DoSkip >>, 2) \o << Up6, Down2, DoSkip >>)

PlayedStates ==
  { VersusCarry, VersusNearDrown, VersusLastNearDrown, VersusLastHaul, VersusBottom,
    VersusCharged, VersusThinAir, VersusLastBreath, VersusBanked,
    CoopHaul, CoopHaul2, CoopRound3, CoopLastDiver, CoopAllLost, MonstersCarry,
    MonstersArmed }

\* The room after create(1, "A"), join(2, "B") and start, its game at s
PlayedRoom(s) ==
  [code |-> 1, host |-> 1,
   clients |-> (1 :> [name |-> "A", playerId |-> 0]) @@ (2 :> [name |-> "B", playerId |-> 1]),
   names |-> << "A", "B" >>, state |-> s, started |-> TRUE,
   coop |-> s.coop, mission |-> s.mission]

\* A lobby with MAX_PLAYERS names: the room after create(1, "A"), join(2, "B"),
\* join(2, "C"), join(2, "D"), join(3, "E") and join(3, "F"); a connection
\* that joins again gets the new name and seat and leaves the old name in
\* the roster
LobbyFull ==
  [code |-> 1, host |-> 1,
   clients |-> (1 :> [name |-> "A", playerId |-> 0]) @@ (2 :> [name |-> "D", playerId |-> 3])
                  @@ (3 :> [name |-> "F", playerId |-> 5]),
   names |-> << "A", "B", "C", "D", "E", "F" >>, state |-> NoState, started |-> FALSE,
   coop |-> FALSE, mission |-> ""]

Init ==
  /\ rooms \in { <<>>, << LobbyFull >> } \cup { << PlayedRoom(s) >> : s \in PlayedStates }
  /\ readyState = [c \in Conns |-> OPEN]
  /\ sent = NoneSent
  /\ logged = <<>>
  /\ handled = 0
  /\ received = [type |-> "none", ws |-> 0]

Next ==
  \/ \E ws \in Conns, name \in Names, m \in Modes, code \in Codes :
       Create(ws, name, m[1], m[2], code)
  \/ \E ws \in Conns, code \in Codes, name \in Names : Join(ws, code, name)
  \/ \E ws \in Conns, vo \in ValueOffsets : Start(ws, vo)
  \/ \E ws \in Conns, vo \in ValueOffsets : Restart(ws, vo)
  \/ \E ws \in Conns, direction \in Directions, d \in DicePairs :
       ChooseDirection(ws, direction, d[1], d[2])
  \/ \E ws \in Conns : BuyAnchor(ws)
  \/ \E ws \in Conns : Roll(ws, 1, 1)
  \/ \E ws \in Conns : PickUp(ws)
  \/ \E ws \in Conns : Drop(ws)
  \/ \E ws \in Conns : Skip(ws)
  \/ \E ws \in Conns : SkipSubTurn(ws)
  \/ \E ws \in Conns : EndRoundEarly(ws)
  \/ \E ws \in Conns, targetId \in TargetIds, roll \in TridentRolls :
       Trident(ws, targetId, roll)
  \/ \E ws \in Conns : DepthCharge(ws)
  \/ \E ws \in Conns : BuyBomb(ws)
  \/ \E ws \in Conns : UseBomb(ws)
  \/ \E ws \in Conns : UnknownAction(ws)
  \/ \E ws \in Conns : Disconnect(ws)
  \/ \E ws \in Conns : Close(ws)

Spec == Init /\ [][Next]_vars

\* The server with the room traffic only, from its start or from the first
\* room's creation: connections create rooms, join them and close, and
\* generateCode has MaxRooms codes to draw from.
MaxRooms == 2

\* The room after create(1, "A")
LobbyOpened ==
  [code |-> 1, host |-> 1,
   clients |-> (1 :> [name |-> "A", playerId |-> 0]),
   names |-> << "A" >>, state |-> NoState, started |-> FALSE,
   coop |-> FALSE, mission |-> ""]

LobbyInit ==
  /\ rooms \in { <<>>, << LobbyOpened >> }
  /\ readyState = [c \in Conns |-> OPEN]
  /\ sent = NoneSent
  /\ logged = <<>>
  /\ handled = 0
  /\ received = [type |-> "none", ws |-> 0]

LobbyNext ==
  \/ \E ws \in Conns, name \in Names, m \in Modes, code \in 1..MaxRooms :
       Create(ws, name, m[1], m[2], code)
  \/ \E ws \in Conns, code \in 1..MaxRooms, name \in Names : Join(ws, code, name)
  \/ \E ws \in Conns : Close(ws)

LobbySpec == LobbyInit /\ [][LobbyNext]_vars

\* computeDestination by itself, called without obstacles on boards of up to
\* MaxBoard tiles, for up to MaxWalk steps, from every position of the board
\* and the submarine and with other players on any set of tiles; a behaviour
\* is one call, and `received` holds the call and what it returned.
MaxBoard == 5
MaxWalk == 4

MoveInit ==
  /\ rooms = <<>>
  /\ readyState = [c \in Conns |-> OPEN]
  /\ sent = NoneSent
  /\ logged = <<>>
  /\ handled = 0
  /\ received = [type |-> "none", ws |-> 0]

ComputeDestination(currentPos, steps, direction, occupiedPositions, boardSize) ==
  /\ received.type = "none"
  /\ received' = [type |-> "computeDestination", ws |-> 0,
                  currentPos |-> currentPos, steps |-> steps, direction |-> direction,
                  occupiedPositions |-> occupiedPositions, boardSize |-> boardSize,
                  dest |-> computeDestination(currentPos, steps, direction,
                                              occupiedPositions, boardSize, {})]
  /\ UNCHANGED << rooms, readyState, sent, logged, handled >>

MoveNext ==
  \E boardSize \in 0..MaxBoard, steps \in 1..MaxWalk, direction \in Directions :
    \E currentPos \in -1..(boardSize - 1), occupiedPositions \in SUBSET (0..(boardSize - 1)) :
      ComputeDestination(currentPos, steps, direction, occupiedPositions, boardSize)

MoveSpec == MoveInit /\ [][MoveNext]_vars

(* ---------------------------------------------------------------------- *)
(* Properties.  `received`, `sent` and `logged` describe the step that led  *)
(* to a state, so a property of one handler run is either a predicate on    *)
(* the state after it or an action formula over the step.                   *)
(* ---------------------------------------------------------------------- *)
\* The game of room k (an index of rooms) is running
Playing(k) == k # 0 /\ rooms[k].started /\ rooms[k].state # NoState

\* m sent to ws and nothing sent to anybody else
OnlyTo(ws, m) == [c \in Conns |-> IF c = ws THEN << m >> ELSE <<>>]

\* The step handles an 'action' message of a client of a running game
ActionStep ==
  /\ received'.type = "action"
  /\ Playing(roomForWs(received'.ws))

\* ... sent by a seat other than / by the seat of the current player
OffTurnStep ==
  /\ ActionStep
  /\ LET room == rooms[roomForWs(received'.ws)]
     IN room.clients[received'.ws].playerId # room.state.currentPlayerIndex

\* C1: in a started room an action from a client whose seat is not
\* state.currentPlayerIndex gets the error "Not your turn." sent to that
\* client only; no room changes (so the game state does not) and nobody is
\* sent a 'state' message.
C1_NotYourTurn ==
  [][OffTurnStep =>
       /\ rooms' = rooms
       /\ sent' = OnlyTo(received'.ws, ErrorMsg("Not your turn."))]_vars

\* An off-turn action was answered
C1_Witness ==
  /\ received.type = "action"
  /\ Playing(roomForWs(received.ws))
  /\ LET room == rooms[roomForWs(received.ws)]
     IN room.clients[received.ws].playerId # room.state.currentPlayerIndex
  /\ sent = OnlyTo(received.ws, ErrorMsg("Not your turn."))

OnTurnStep ==
  /\ ActionStep
  /\ LET room == rooms[roomForWs(received'.ws)]
     IN room.clients[received'.ws].playerId = room.state.currentPlayerIndex

\* What the handler of the received action returns for the draws d.  A
\* handler validates before it draws, so whether it returns null does not
\* depend on d.
Draws(kind) ==
  IF kind \in {"choose-direction", "roll"}
  THEN { << d1, d2, 1 >> : d1 \in DieFaces, d2 \in DieFaces }
  ELSE IF kind = "trident" THEN { << 1, 1, roll >> : roll \in TridentRolls }
  ELSE { << 1, 1, 1 >> }

Handled(d) ==
  ACTION_HANDLERS(received'.action, rooms[roomForWs(received'.ws)].state,
                  received'.payload, d[1], d[2], d[3])

RejectedStep ==
  /\ OnTurnStep
  /\ received'.action \in ActionKinds
  /\ ~Handled(<< 1, 1, 1 >>).ok

AcceptedStep ==
  /\ OnTurnStep
  /\ received'.action \in ActionKinds
  /\ Handled(<< 1, 1, 1 >>).ok

\* C2: an action of any of the twelve kinds that the current seat sends and
\* the handler rejects (it returns null: wrong phase, or the legality
\* predicate fails) changes no field of the game state (no room changes at
\* all), gets the error "Invalid action." sent to the sender only, and no
\* 'state' message is sent to anybody.
C2_RejectedUnchanged ==
  [][RejectedStep =>
       /\ rooms' = rooms
       /\ sent' = OnlyTo(received'.ws, ErrorMsg("Invalid action."))]_vars

\* The current player, on a tile that holds a chip, asked to drop one of the
\* chips it carries and was refused
C2_Witness ==
  /\ received.type = "action"
  /\ received.action = "drop"
  /\ Playing(roomForWs(received.ws))
  /\ LET s == rooms[roomForWs(received.ws)].state
     IN /\ s.turnPhase = "pickup"
        /\ Len(CurrentPlayer(s).carried) > 0
        /\ ChipAt(s.chips, CurrentPlayer(s).position) # Null
  /\ sent = OnlyTo(received.ws, ErrorMsg("Invalid action."))

\* The 'state' message of room for client c
StateMsg(room, c, event) ==
  [type |-> "state", state |-> room.state, playerId |-> room.clients[c].playerId,
   event |-> event]

Games == { k \in DOMAIN rooms : rooms[k].state # NoState }
GamesAfter == { k \in DOMAIN rooms' : rooms'[k].state # NoState }

OxygenInRange ==
  \A k \in Games :
     rooms[k].state.oxygen >= 0 /\ rooms[k].state.oxygen <= STARTING_OXYGEN

\* The room that is k after the step is j before it, and held a game then
SameGameRoom(j, k) == j \in Games /\ k \in GamesAfter /\ rooms[j].code = rooms'[k].code

OxygenStep ==
  \A j \in DOMAIN rooms, k \in DOMAIN rooms' :
     (SameGameRoom(j, k) /\ rooms'[k].state.oxygen > rooms[j].state.oxygen) =>
        /\ rooms'[k].state.oxygen = STARTING_OXYGEN
        /\ \/ rooms'[k].state.round = rooms[j].state.round + 1
           \/ /\ received'.type \in {"start", "restart"}
              /\ rooms'[k].state.round = 1

\* C4: in every reachable game state 0 <= oxygen <= STARTING_OXYGEN, and
\* from one state to the next oxygen increases only where a new round
\* begins (the next round of the game, or round 1 of a game that the host
\* started anew), and it is STARTING_OXYGEN there.
C4_Oxygen == []OxygenInRange /\ [][OxygenStep]_vars

\* The last round's oxygen ran out: the choice of a player who carries more
\* chips than there is oxygen left stopped the meter at 0
C4_Witness ==
  /\ received.type = "action"
  /\ received.action = "choose-direction"
  /\ \E k \in Games :
        /\ rooms[k].state.oxygen = 0
        /\ rooms[k].state.gameOver
        /\ \E e \in DOMAIN logged : logged[e] = LogEntry("uses-oxygen", "B", 0)
        /\ \E e \in DOMAIN logged : logged[e] = LogEntry("underwater-loses", "B", 3)

\* C5: in every reachable game state a player who carries a chip is on the
\* board (position >= 0); a player on the submarine (-1) or slain (-99)
\* carries nothing.
C5_CarriedOnBoard ==
  \A k \in Games :
     \A i \in Seats(rooms[k].state) :
        Len(PlayerAt(rooms[k].state, i).carried) > 0 => PlayerAt(rooms[k].state, i).position >= 0

\* A trident slew a player who was carrying a chip
C5_Witness ==
  /\ received.type = "action"
  /\ received.action = "trident"
  /\ \E k \in Games : \E i \in Seats(rooms[k].state) :
        /\ PlayerAt(rooms[k].state, i).position = -99
        /\ PlayerAt(rooms[k].state, i).carried = <<>>
        /\ \E e \in DOMAIN logged :
              logged[e] = LogEntry("loses-carried", PlayerAt(rooms[k].state, i).name, 1)

\* The game state the received action was applied to, and the one it left
Before == rooms[roomForWs(received'.ws)].state
After == rooms'[roomForWs(received'.ws)].state

\* The handler logged an entry with this tag
Logs(tag) == \E e \in DOMAIN logged' : logged'[e].tag = tag

\* The accepted action moved the current player back to the submarine
ReturnStep ==
  /\ AcceptedStep
  /\ received'.action = "choose-direction"
  /\ Logs("returned")

\* C6: when a move returns the current player to the submarine, the player's
\* carried list is empty afterwards and the sum of the values it carried
\* before the move is added to its own banked total (versus: the values of
\* its scored chips; the shared pool does not change) or to the shared pool
\* (co-op: no player's scored chips change); no other player's scored chips
\* change.
C6_ReturnBanks ==
  [][ReturnStep =>
       LET seat == Before.currentPlayerIndex
           haul == SumValues(PlayerAt(Before, seat).carried)
       IN /\ PlayerAt(After, seat).carried = <<>>
          /\ \A i \in Seats(Before) \ {seat} :
                PlayerAt(After, i).scored = PlayerAt(Before, i).scored
          /\ IF Before.coop
             THEN /\ After.coopScore = Before.coopScore + haul
                  /\ PlayerAt(After, seat).scored = PlayerAt(Before, seat).scored
             ELSE /\ playerScore(PlayerAt(After, seat))
                       = playerScore(PlayerAt(Before, seat)) + haul
                  /\ After.coopScore = Before.coopScore]_vars

\* In a versus game a player came back with a chip and has it in its bank
C6_Witness ==
  /\ received.type = "action"
  /\ received.action = "choose-direction"
  /\ \E k \in Games : \E i \in Seats(rooms[k].state) :
        LET p == PlayerAt(rooms[k].state, i)
        IN /\ ~rooms[k].state.coop
           /\ \E e \in DOMAIN logged : logged[e].tag = "returned" /\ logged[e].who = p.name
           /\ p.position = -1
           /\ p.carried = <<>>
           /\ playerScore(p) > 0

\* The round the action was applied in is over after it: the next round has
\* begun, or the game ended with its last round
RoundEnded ==
  \/ After.round = Before.round + 1
  \/ After.gameOver /\ ~Before.gameOver

\* The accepted action ended the turn of the current player (the handler
\* called endTurn): every action but the purchases, a move that lands on a
\* tile (the player then picks its action there) and end-round-early
TurnEnded ==
  /\ received'.action \notin {"buy-anchor", "buy-bomb", "end-round-early"}
  /\ ~Logs("lands")

\* The round condition at the end of the turn, from the state before the
\* action and what the action did: the oxygen after the mover's breath or
\* the depth charge, ...
MidOxygen ==
  LET mover == CurrentPlayer(Before) IN
  IF received'.action = "choose-direction" /\ mover.position # -1
  THEN Max(0, Before.oxygen - Len(mover.carried))
  ELSE IF received'.action = "depth-charge"
  THEN Max(0, Before.oxygen - DEPTH_CHARGE_OXYGEN_COST)
  ELSE Before.oxygen

\* ... and the living players that are not on the submarine: those that
\* were not, less the mover if it came back and the player the trident slew
AwayMid ==
  LET mover == Before.currentPlayerIndex
      back == IF Logs("returned") THEN {mover} ELSE {}
      slain == IF Logs("trident-kill")
               THEN {FindTarget(Before, received'.payload.targetId)}
               ELSE IF Logs("trident-backfire") THEN {mover} ELSE {}
  IN { i \in Seats(Before) :
         ~PlayerAt(Before, i).dead /\ PlayerAt(Before, i).position # -1 } \ (back \cup slain)

\* oxygen is 0 or every living player's position is -1
RoundCondition(s) ==
  \/ s.oxygen = 0
  \/ \A i \in Seats(s) : ~PlayerAt(s, i).dead => PlayerAt(s, i).position = -1

C8_CoopRoundEnd ==
  [][(AcceptedStep /\ Before.coop) =>
       /\ (TurnEnded /\ MidOxygen > 0 /\ AwayMid = {}) => ~RoundEnded
       /\ (RoundEnded /\ MidOxygen > 0) => received'.action = "end-round-early"]_vars

\* The last player under water came back with oxygen left, and the round of
\* the co-op game goes on
C8_Witness ==
  /\ received.type = "action"
  /\ received.action = "choose-direction"
  /\ \E k \in Games :
        /\ rooms[k].state.coop
        /\ rooms[k].state.oxygen > 0
        /\ rooms[k].state.round = 1
        /\ rooms[k].state.turnPhase = "direction"
        /\ allPlayersOnSub(rooms[k].state.players)
        /\ \E e \in DOMAIN logged : logged[e].tag = "returned"
        /\ \A e \in DOMAIN logged : logged[e].tag # "round-over"

\* The accepted choose-direction of a player under water took the last oxygen
DrownStep ==
  /\ AcceptedStep
  /\ received'.action = "choose-direction"
  /\ CurrentPlayer(Before).position # -1
  /\ MidOxygen = 0

\* The names of the living players on the board before the action, by seat
DrownNames ==
  LET OnBoard(p) == p.position >= 0 /\ ~p.dead
      divers == SelectSeq(Before.players, OnBoard)
  IN [k \in 1..Len(divers) |-> divers[k].name]

\* The events that were sent with the state
EventsSent == { sent'[c][1].event : c \in { c \in Conns : sent'[c] # <<>> } }

\* The round ended in the action, nobody moved (no dice total, no landing,
\* no return), the players on the board lost what they carried, and no bank
\* and no pool changed
DrownOutcome ==
  /\ RoundEnded
  /\ ~Logs("lands") /\ ~Logs("returned")
  /\ \A e \in EventsSent : e.diceTotal = NoEvent.diceTotal /\ e.oxygenDepleted
  /\ \A i \in Seats(Before) :
        /\ (PlayerAt(Before, i).position >= 0 /\ ~PlayerAt(Before, i).dead)
              => PlayerAt(After, i).carried = <<>>
        /\ PlayerAt(After, i).scored = PlayerAt(Before, i).scored
  /\ After.coopScore = Before.coopScore

\* The event of a round end that ended the game
EndOfGameEvent ==
  IF After.coopWin THEN LastEvent("coopWin", <<"Team">>)
  ELSE IF After.coopLose THEN LastEvent("coopLose", <<"Team">>)
  ELSE LastEvent("gameOver", <<After.winner>>)

\* C9 as stated: when a choose-direction brings oxygen to 0 the round ends
\* within the action without a move, the living players on the board lose
\* what they carry, no bank and no pool changes, and the event sent with the
\* state is the drown event naming the players on the board.
C9_DrownEventAlways ==
  [][DrownStep =>
       /\ DrownOutcome
       /\ \A e \in EventsSent : e.lastEvent = LastEvent("drown", DrownNames)]_vars

\* C9, amended: ... and the event sent with the state is the drown event
\* naming the players on the board, unless the round that ends ends the
\* game, where it is the event of the game's end (gameOver with the winner,
\* coopWin or coopLose).
C9_DrownEvent ==
  [][DrownStep =>
       /\ DrownOutcome
       /\ \A e \in EventsSent :
             e.lastEvent = IF After.gameOver THEN EndOfGameEvent
                           ELSE LastEvent("drown", DrownNames)]_vars

\* Both players of a versus game drowned in round 1 and were told so
C9_Witness ==
  /\ received.type = "action"
  /\ received.action = "choose-direction"
  /\ \E k \in Games :
        /\ rooms[k].state.round = 2
        /\ ~rooms[k].state.gameOver
        /\ \A i \in Seats(rooms[k].state) : PlayerAt(rooms[k].state, i).carried = <<>>
        /\ \E e \in DOMAIN logged : logged[e] = LogEntry("underwater-loses", "A", 7)
        /\ \E c \in DOMAIN rooms[k].clients :
              /\ sent[c] # <<>>
              /\ sent[c][1].event.lastEvent = LastEvent("drown", << "A", "B" >>)
              /\ sent[c][1].event.oxygenDepleted

\* The accepted action was applied to a co-op treasure mission
TreasureStep ==
  /\ AcceptedStep
  /\ Before.coop
  /\ Before.mission = "treasure"

\* The current player came back and its haul took the pool to the target
PoolFilledStep ==
  /\ TreasureStep
  /\ Logs("returned")
  /\ Before.coopScore < Before.coopTarget
  /\ After.coopScore >= After.coopTarget

Success(s) == s.gameOver /\ s.coopWin /\ ~s.coopLose

\* C10 as stated: in a co-op treasure mission, when a return to the
\* submarine brings the shared pool to the target (30 per player) or above,
\* the game ends with success: gameOver and coopWin are true, coopLose is
\* false.
C10_WinOnReturn == [][PoolFilledStep => Success(After)]_vars

\* C10, amended: in a co-op treasure mission the target is 30 per player; a
\* return that brings the shared pool to the target or above leaves the
\* game running, and the game ends with success (gameOver and coopWin true,
\* coopLose false) when the round then ends (by an accepted end-round-early
\* or by the oxygen) with the pool still at the target or above.
C10_WinAtRoundEnd ==
  [][TreasureStep =>
       /\ Before.coopTarget = COOP_TREASURE_PER_PLAYER * NumPlayers(Before)
       /\ PoolFilledStep => ~After.gameOver
       /\ (Logs("round-over") /\ After.coopScore >= After.coopTarget) => Success(After)]_vars

\* The team ended the round after the second haul had filled the pool, and
\* the mission is complete
C10_Witness ==
  /\ received.type = "action"
  /\ received.action = "end-round-early"
  /\ \E k \in Games :
        /\ rooms[k].state.coop
        /\ rooms[k].state.mission = "treasure"
        /\ rooms[k].state.coopScore = 2 * COOP_TREASURE_PER_PLAYER
        /\ rooms[k].state.coopScore = rooms[k].state.coopTarget
        /\ Success(rooms[k].state)
        /\ \E e \in DOMAIN logged : logged[e].tag = "mission-complete"

\* The accepted action was a trident attack; the seats of the attacker and
\* of the target, and the roll the handler drew (it is in its log entry)
TridentStep == AcceptedStep /\ received'.action = "trident"
Attacker == Before.currentPlayerIndex
Target == FindTarget(Before, received'.payload.targetId)
TridentRoll ==
  (CHOOSE e \in { logged'[k] : k \in DOMAIN logged' } :
      e.tag \in {"trident-kill", "trident-backfire", "trident-miss"}).n

\* Seat i was eliminated by the action: it lost what it carried, and where
\* the round goes on it is dead at position -99 ...
Eliminated(i) ==
  /\ PlayerAt(After, i).carried = <<>>
  /\ ~RoundEnded => (PlayerAt(After, i).dead /\ PlayerAt(After, i).position = -99)

\* ... or was left as it was
Spared(i) ==
  /\ ~RoundEnded
  /\ PlayerAt(After, i) = PlayerAt(Before, i)

\* C11: for every accepted trident attack a roll of 5 or 6 eliminates the
\* target and never the attacker, a roll of 1 eliminates the attacker and
\* never the target, and a roll of 2, 3 or 4 eliminates neither; an
\* eliminated player loses the chips it carries and gets position -99.
C11_TridentRolls ==
  [][TridentStep =>
       /\ TridentRoll \in {5, 6} => (Eliminated(Target) /\ Spared(Attacker))
       /\ TridentRoll = 1 => (Eliminated(Attacker) /\ Spared(Target))
       /\ TridentRoll \in {2, 3, 4} => (Spared(Attacker) /\ Spared(Target))]_vars

\* The same for the attacks on another player, where it holds
C11_TridentRollsOnOthers ==
  [][(TridentStep /\ Target # Attacker) =>
       /\ TridentRoll \in {5, 6} => (Eliminated(Target) /\ Spared(Attacker))
       /\ TridentRoll = 1 => (Eliminated(Attacker) /\ Spared(Target))
       /\ TridentRoll \in {2, 3, 4} => (Spared(Attacker) /\ Spared(Target))]_vars

\* The living seats of s, and how many seats after seat `from` seat i comes
\* in cyclic order (1 for the next seat, the number of seats for itself)
Living(s) == { i \in Seats(s) : ~PlayerAt(s, i).dead }
SeatsAfter(s, from, i) == ((i - from - 1) % NumPlayers(s)) + 1

\* The current player lives, unless nobody does
CurrentLives ==
  \A k \in Games :
     rooms[k].started =>
        (Living(rooms[k].state) # {} =>
           rooms[k].state.currentPlayerIndex \in Living(rooms[k].state))

\* A turn that ended without ending the round passed to the living seat
\* that comes first after the mover, and each seat passed over is in the
\* log as skipped
AdvanceStep ==
  (AcceptedStep /\ TurnEnded /\ ~RoundEnded /\ Living(After) # {}) =>
     LET from == Before.currentPlayerIndex
         next == After.currentPlayerIndex
     IN /\ next \in Living(After)
        /\ \A i \in Living(After) : SeatsAfter(After, from, next) <= SeatsAfter(After, from, i)
        /\ \A i \in Seats(After) :
              (SeatsAfter(After, from, i) < SeatsAfter(After, from, next))
                 <=> (\E e \in DOMAIN logged' :
                        logged'[e] = LogEntry("dead-skipped", PlayerAt(After, i).name, i))

\* C12: in every reachable state of a started game currentPlayerIndex is the
\* seat of a living player unless every player is eliminated, and a turn
\* advance lands on the next living seat in cyclic order, skipping the
\* eliminated seats.
C12_CurrentPlayerLives == []CurrentLives /\ [][AdvanceStep]_vars

\* A slew B with the trident, B's seat was skipped and it is A's turn again
C12_Witness ==
  /\ received.type = "action"
  /\ received.action = "trident"
  /\ \E k \in Games :
        LET s == rooms[k].state
        IN /\ s.currentPlayerIndex = 0
           /\ ~PlayerAt(s, 0).dead
           /\ PlayerAt(s, 1).dead
           /\ s.turnPhase = "direction"
           /\ \E e \in DOMAIN logged : logged[e] = LogEntry("dead-skipped", "B", 1)

\* The accepted action ended a round
RoundOverStep == AcceptedStep /\ Logs("round-over")

\* The board as the round left it: the board before the action, less the
\* chip a depth charge destroyed (no other action that ends a round takes a
\* chip off the board)
OldBoard ==
  IF received'.action = "depth-charge"
  THEN [Before.chips EXCEPT ![CurrentPlayer(Before).position + 1] = Null]
  ELSE Before.chips

\* Its tiles that are not null, in their order
KeptTiles ==
  LET NotNull(c) == c # Null IN SelectSeq(OldBoard, NotNull)

\* C13: the compaction at the end of a round keeps exactly the non-null
\* tiles of the old board in their order and numbers them from 0: the id of
\* a chip is its index and boardSize is the number of tiles; the monster
\* tiles of a co-op monster hunt are kept like the others.
C13_Compaction ==
  [][RoundOverStep =>
       /\ Len(After.chips) = Len(KeptTiles)
       /\ After.boardSize = Len(After.chips)
       /\ \A k \in 1..Len(After.chips) :
             /\ After.chips[k] # Null
             /\ After.chips[k].id = k - 1
             /\ After.chips[k] = [KeptTiles[k] EXCEPT !.id = k - 1]
       /\ getMonsterPositions(After.chips)
            = { p - Cardinality({ q \in 0..(p - 1) : ChipAt(OldBoard, q) = Null }) :
                  p \in getMonsterPositions(OldBoard) }]_vars

\* The first round of a monster hunt ended after the chip of tile 1 had been
\* picked up: 31 tiles are left and the monsters of tiles 14 and 21 are on
\* tiles 13 and 20
C13_Witness ==
  /\ received.type = "action"
  /\ \E e \in DOMAIN logged : logged[e].tag = "round-over"
  /\ \E k \in Games :
        LET s == rooms[k].state
        IN /\ s.mission = "monsters"
           /\ s.round = 2
           /\ s.boardSize = BOARD_SIZE - 1
           /\ Len(s.chips) = BOARD_SIZE - 1
           /\ getMonsterPositions(s.chips) = {13, 20}
           /\ ChipAt(s.chips, 1).id = 1

\* The step handles a 'join' message; the room it names, if there is one
JoinStep == received'.type = "join"
JoinedRoom == rooms[RoomIndex(received'.code)]

\* The error the join handler answers with, or "" where it lets the joiner
\* in: the tests of lines 802-805 in their order
JoinError ==
  IF received'.code \notin RoomCodes THEN "Room not found."
  ELSE IF JoinedRoom.started THEN "Game already started."
  ELSE IF Len(JoinedRoom.names) >= MAX_PLAYERS THEN "Room is full."
  ELSE IF \E i \in DOMAIN JoinedRoom.names : JoinedRoom.names[i] = received'.name
       THEN "Name already taken."
  ELSE ""

\* No roster has more than MAX_PLAYERS names or the same name twice
RostersSound ==
  \A k \in DOMAIN rooms :
     /\ Len(rooms[k].names) <= MAX_PLAYERS
     /\ \A i, j \in DOMAIN rooms[k].names :
           rooms[k].names[i] = rooms[k].names[j] => i = j

\* C14: a join that names no room, a started room, a room with 6 names or a
\* name the roster has already is answered with an error to the joiner
\* only; it creates no room and changes no roster, client map or game state
\* (no room changes).  So no roster ever exceeds 6 names, and the names of
\* a roster are pairwise distinct.
C14_JoinRejected ==
  /\ []RostersSound
  /\ [][(JoinStep /\ JoinError # "") =>
          /\ rooms' = rooms
          /\ sent' = OnlyTo(received'.ws, ErrorMsg(JoinError))]_vars

\* A join to a lobby that has six names was answered "Room is full."
C14_Witness ==
  /\ received.type = "join"
  /\ received.code \in RoomCodes
  /\ Len(rooms[RoomIndex(received.code)].names) = MAX_PLAYERS
  /\ ~rooms[RoomIndex(received.code)].started
  /\ sent = OnlyTo(received.ws, ErrorMsg("Room is full."))

\* The step handles a 'start' or a 'restart' of a client of a room
ControlStep ==
  /\ received'.type \in {"start", "restart"}
  /\ roomForWs(received'.ws) # 0
ControlledRoom == rooms[roomForWs(received'.ws)]

\* ... that is not the room's creator, or a 'start' of the creator of a room
\* with fewer than MIN_PLAYERS names
Unauthorized ==
  /\ ControlStep
  /\ \/ received'.ws # ControlledRoom.host
     \/ received'.type = "start" /\ Len(ControlledRoom.names) < MIN_PLAYERS

\* The sender, and nobody else, was sent one message, an error
ErrorReplyOnly ==
  /\ Len(sent'[received'.ws]) = 1
  /\ sent'[received'.ws][1].type = "error"
  /\ \A c \in Conns \ {received'.ws} : sent'[c] = <<>>

\* C15: a 'start' or 'restart' of a client that is not the room's creator,
\* and a 'start' of the creator of a room with fewer than 2 names, is
\* rejected with an error reply to the sender only, and the room (its state
\* and its started flag) is untouched.
C15_ControlRejected ==
  [][Unauthorized => (rooms' = rooms /\ ErrorReplyOnly)]_vars

\* What holds of it: the room is untouched, and a 'start' gets the error
\* reply; a 'restart' of a client that is not the creator gets no reply
C15_ControlUntouched ==
  [][Unauthorized =>
       /\ rooms' = rooms
       /\ IF received'.type = "start" THEN ErrorReplyOnly ELSE sent' = NoneSent]_vars

\* Every started game has MIN_PLAYERS to MAX_PLAYERS players
StartedGamesSized ==
  \A k \in Games :
     rooms[k].started =>
        /\ NumPlayers(rooms[k].state) >= MIN_PLAYERS
        /\ NumPlayers(rooms[k].state) <= MAX_PLAYERS

\* The step handles a 'start' of a client of a room that has started
StartAgainStep ==
  /\ received'.type = "start"
  /\ roomForWs(received'.ws) # 0
  /\ rooms[roomForWs(received'.ws)].started

\* C16: a room goes from lobby to running once: a 'start' received by a room
\* that has started does not replace or reset its game state; and every
\* started game has between 2 and 6 players.
C16_StartOnce ==
  /\ []StartedGamesSized
  /\ [][StartAgainStep => rooms' = rooms]_vars

\* What holds of it: the size of the started games, and that a 'start' of
\* anybody but the host leaves a started room as it is
C16_StartedGamesSized ==
  /\ []StartedGamesSized
  /\ [][(StartAgainStep /\ received'.ws # ControlledRoom.host) => rooms' = rooms]_vars

\* C17: a room leaves the registry as soon as its last connected client
\* detaches: after any sequence of create, join and close events every room
\* of the registry has a client whose connection is still open (its close
\* has not been handled).
C17_RoomsHaveOpenClient ==
  \A k \in DOMAIN rooms :
     \E c \in DOMAIN rooms[k].clients : readyState[c] # CLOSED

\* C18: when a versus game has ended, winner is the name of a player whose
\* banked value (the sum of the values of its scored chips) is greater than
\* or equal to the banked value of every other player.
C18_Winner ==
  \A k \in Games :
     (~rooms[k].state.coop /\ rooms[k].state.gameOver) =>
        \E i \in Seats(rooms[k].state) :
           /\ PlayerAt(rooms[k].state, i).name = rooms[k].state.winner
           /\ \A j \in Seats(rooms[k].state) :
                 playerScore(PlayerAt(rooms[k].state, i))
                    >= playerScore(PlayerAt(rooms[k].state, j))

\* The last round ended with B's return: B has banked 6, A nothing, and B is
\* the winner
C18_Witness ==
  /\ received.type = "action"
  /\ \E k \in Games :
        LET s == rooms[k].state
        IN /\ ~s.coop
           /\ s.gameOver
           /\ s.winner = "B"
           /\ playerScore(PlayerAt(s, 1)) > playerScore(PlayerAt(s, 0))
           /\ \E e \in DOMAIN logged : logged[e] = LogEntry("game-over", "B", 0)

\* coopWin and coopLose are never both true, and either implies gameOver
CoopFlagsSound ==
  \A k \in Games :
     LET s == rooms[k].state
     IN /\ ~(s.coopWin /\ s.coopLose)
        /\ (s.coopWin \/ s.coopLose) => s.gameOver

\* The goal of the mission is met in the state the round left: the pool
\* holds the target, or no monster is left
GoalMet ==
  IF After.mission = "treasure" THEN After.coopScore >= After.coopTarget
  ELSE \A p \in 0..(Len(After.chips) - 1) : ~IsMonster(After.chips, p)

\* The accepted action ended the last round of a co-op game
LastCoopRoundStep ==
  /\ AcceptedStep
  /\ Before.coop
  /\ Logs("round-over")
  /\ Before.round = Before.maxRounds

\* C19: in co-op mode, when round maxRounds ends and the goal of the mission
\* is not met the game ends with coopLose true and coopWin false; in no
\* reachable state are coopWin and coopLose both true, and either of them
\* implies gameOver.
C19_CoopLose ==
  /\ []CoopFlagsSound
  /\ [][(LastCoopRoundStep /\ ~GoalMet) =>
          (After.gameOver /\ After.coopLose /\ ~After.coopWin)]_vars

\* The team ended the last round with 30 of 60 in the pool and has lost
C19_Witness ==
  /\ received.type = "action"
  /\ received.action = "end-round-early"
  /\ \E k \in Games :
        LET s == rooms[k].state
        IN /\ s.coop
           /\ s.round = s.maxRounds
           /\ s.coopScore < s.coopTarget
           /\ s.gameOver /\ s.coopLose /\ ~s.coopWin
           /\ \E e \in DOMAIN logged : logged[e] = LogEntry("mission-failed", "", s.coopScore)

\* The step handles a 'trident' action of the current seat
TridentAsked == OnTurnStep /\ received'.action = "trident"

\* The target named is another player who is alive, on the board and one
\* tile away from the attacker
LegalTarget ==
  /\ Target # -1
  /\ Target # Attacker
  /\ ~PlayerAt(Before, Target).dead
  /\ PlayerAt(Before, Target).position >= 0
  /\ PlayerAt(Before, Target).position - PlayerAt(Before, Attacker).position \in {-1, 1}

\* C20: a trident action is accepted only if its target is another player
\* who is alive, on the board and exactly one tile away from the attacker;
\* with any other target (not adjacent, the attacker itself, on the
\* submarine, eliminated, or an unknown id) it is rejected and the state
\* does not change.
C20_TridentTarget ==
  [][(TridentAsked /\ ~LegalTarget) =>
       /\ rooms' = rooms
       /\ sent' = OnlyTo(received'.ws, ErrorMsg("Invalid action."))]_vars

\* What holds of it: a target that is unknown, eliminated or on the
\* submarine is rejected and the state does not change
C20_TridentTargetOnBoard ==
  [][(/\ TridentAsked
      /\ \/ Target = -1
         \/ PlayerAt(Before, Target).dead
         \/ PlayerAt(Before, Target).position < 0) =>
       /\ rooms' = rooms
       /\ sent' = OnlyTo(received'.ws, ErrorMsg("Invalid action."))]_vars


\* Two living players stand on the same tile of the board of s
SharedTiles(s) ==
  { p \in 0..(s.boardSize - 1) :
      \E i, j \in Living(s) :
         i # j /\ PlayerAt(s, i).position = p /\ PlayerAt(s, j).position = p }

MoveStep == AcceptedStep /\ received'.action = "choose-direction"

\* C21: after an accepted choose-direction no two living players stand on
\* the same tile of the board, the last tile and the tile just short of a
\* sea monster included.
C21_NoSharedTile == [][MoveStep => SharedTiles(After) = {}]_vars

\* The tiles of s where a walk stops whatever stands on them: the last tile,
\* and the neighbours of a sea monster of a monster hunt
StopTiles(s) ==
  { s.boardSize - 1 } \cup
  { p \in 0..(s.boardSize - 1) :
      /\ s.coop /\ s.mission = "monsters"
      /\ \E q \in getMonsterPositions(s.chips) : p - q \in {-1, 1} }

\* ... a move lands on an occupied tile at those tiles only
C21_SharedAtStopsOnly ==
  [][MoveStep => SharedTiles(After) \subseteq (SharedTiles(Before) \cup StopTiles(After))]_vars


\* The actions of the pickup phase, and the purchases of the direction phase
PickupKinds == {"pick-up", "drop", "skip", "trident", "depth-charge", "use-bomb"}
PurchaseKinds == {"buy-anchor", "buy-bomb"}

TurnEndingStep ==
  (AcceptedStep /\ received'.action \in PickupKinds) =>
     /\ Before.turnPhase = "pickup"
     /\ After.turnPhase \in {"direction", "gameOver"}

PurchaseStep ==
  (AcceptedStep /\ received'.action \in PurchaseKinds) =>
     /\ Before.turnPhase = "direction"
     /\ After.turnPhase = "direction"
     /\ After.currentPlayerIndex = Before.currentPlayerIndex
     /\ After.round = Before.round
     /\ ~After.gameOver

\* C22: an accepted pick-up, drop, skip, trident, depth-charge or use-bomb
\* is taken in the pickup phase and leaves the phase 'direction' or
\* 'gameOver', so that a second one is rejected in the same turn; an
\* accepted buy-anchor or buy-bomb leaves the phase 'direction' and the turn
\* with the same player.
C22_PickupActionEndsTurn == [][TurnEndingStep /\ PurchaseStep]_vars

\* A moved next to the sea monster and blew it up: the turn went to B
C22_Witness ==
  /\ received.type = "action"
  /\ received.action = "use-bomb"
  /\ \E k \in Games :
        LET s == rooms[k].state
        IN /\ s.turnPhase = "direction"
           /\ s.currentPlayerIndex = 1
           /\ s.monstersRemaining = 1
           /\ PlayerAt(s, 0).bombs = 0
           /\ \E e \in DOMAIN logged : logged[e] = LogEntry("bombs-monster", "A", 14)


\* The phase a game rests in between two messages
PhaseRests ==
  \A k \in Games : rooms[k].state.turnPhase \in {"direction", "pickup", "gameOver"}

\* A 'roll' action of a client of a running game is answered with an error,
\* to its sender only, and changes nothing
RollRefused ==
  (ActionStep /\ received'.action = "roll") =>
     /\ rooms' = rooms
     /\ \/ sent' = OnlyTo(received'.ws, ErrorMsg("Invalid action."))
        \/ OffTurnStep /\ sent' = OnlyTo(received'.ws, ErrorMsg("Not your turn."))

\* C23: between messages the turn phase of every game is 'direction',
\* 'pickup' or 'gameOver', never 'roll' or 'endTurn' (the roll is resolved
\* within choose-direction), and a 'roll' action sent by a client is always
\* rejected.
C23_PhaseRests == []PhaseRests /\ [][RollRefused]_vars

\* The current player chose a direction, was moved onto the board, then sent
\* 'roll' and was refused
C23_Witness ==
  /\ received.type = "action"
  /\ received.action = "roll"
  /\ Playing(roomForWs(received.ws))
  /\ LET room == rooms[roomForWs(received.ws)]
     IN /\ room.clients[received.ws].playerId = room.state.currentPlayerIndex
        /\ room.state.turnPhase = "pickup"
        /\ room.state.diceResult > 0
  /\ sent = OnlyTo(received.ws, ErrorMsg("Invalid action."))


\* The player that moves in a MoveStep, before and after it, and what it asked
Mover == CurrentPlayer(Before)
Moved == PlayerAt(After, Before.currentPlayerIndex)
Asked == received'.payload.direction

\* A player of the safe zone is sent down whatever it asked, a player on the
\* board keeps the direction it asked for (a round that ends in the same
\* call resets it) and is moved that way
DirectionTaken ==
  MoveStep =>
     /\ Mover.position = -1 => Moved.direction = "down"
     /\ (Mover.position >= 0 /\ ~Logs("round-over")) => Moved.direction = Asked
     /\ (Mover.position >= 0 /\ ~Logs("round-over") /\ Asked = "down") =>
           Moved.position >= Mover.position
     /\ (Mover.position >= 0 /\ ~Logs("round-over") /\ Asked = "up") =>
           Moved.position <= Mover.position

DirectionsKnown ==
  MoveStep => \A i \in Seats(After) : PlayerAt(After, i).direction \in {"down", "up"}

\* C24: an accepted choose-direction of a player in the safe zone leaves its
\* direction 'down' whatever was asked, a player on the board moves the way
\* it asked, and afterwards the direction of every player is 'down' or 'up'.
C24_Direction == [][DirectionTaken /\ DirectionsKnown]_vars

\* ... the first two parts alone
C24_DirectionTaken == [][DirectionTaken]_vars


\* The MoveStep rolled the dice (the oxygen did not run out before the roll)
RolledStep == MoveStep /\ (Logs("lands") \/ Logs("returned"))

\* The tiles where the other living players stand, the sea monsters that
\* block the way, and the number of tiles of a..b nobody else stands on
Others == occupiedBy(Before.players, Mover.id)
Blockers ==
  IF Before.coop /\ Before.mission = "monsters" THEN getMonsterPositions(Before.chips) ELSE {}
Free(a, b) == Cardinality({ t \in a..b : t \notin Others })

\* The total of the two dice: state.diceResult, or what the log tells of a
\* return to the submarine (the round it may end clears state.diceResult)
Dice ==
  IF Logs("returned")
  THEN logged'[CHOOSE e \in DOMAIN logged' : logged'[e].tag = "returned"].n
  ELSE After.diceResult

\* max(1, dice * m - carriedCount)
StepsDue ==
  Max(1, Dice * (IF Mover.anchorActive THEN 5 ELSE 1) - Len(Mover.carried))

GoesDown == Mover.position = -1 \/ Asked = "down"

\* Tiles walked: the tiles nobody else stands on between the start and the
\* landing tile, the landing tile included.  A walk the end of the board, a
\* sea monster or the submarine stops is shorter than StepsDue, every other
\* walk has exactly that length.
StepsMoved ==
  RolledStep =>
     LET from == Mover.position
         dest == Moved.position
     IN IF Logs("returned")
        THEN ~GoesDown /\ Free(0, from - 1) < StepsDue
        ELSE IF GoesDown
        THEN /\ dest >= from
             /\ Free(from + 1, dest) <= StepsDue
             /\ (dest < Before.boardSize - 1 /\ (dest + 1) \notin Blockers) =>
                   (Free(from + 1, dest) = StepsDue /\ dest \notin Others)
        ELSE /\ dest <= from /\ dest >= 0
             /\ Free(dest, from - 1) <= StepsDue
             /\ (dest - 1) \notin Blockers =>
                   (Free(dest, from - 1) = StepsDue /\ dest \notin Others)

\* The roll takes the anchor: no anchor is active after it, and
\* anchorUsedThisRoll tells whether one was
AnchorTaken ==
  RolledStep =>
     /\ ~Moved.anchorActive
     /\ Dice \in 2..6
     /\ Logs("lands") => After.anchorUsedThisRoll = Mover.anchorActive

\* C25: a roll moves the player max(1, dice * m - carried) steps, dice the
\* total of the two dice (2..6), m = 5 with an active anchor and 1 without,
\* carried the number of chips in hand; the roll consumes an active anchor.
C25_Steps == [][StepsMoved /\ AnchorTaken]_vars

\* A bought an anchor on the submarine and was moved five times the dice
C25_Witness ==
  /\ received.type = "action"
  /\ received.action = "choose-direction"
  /\ \E k \in Games :
        LET s == rooms[k].state
        IN /\ s.turnPhase = "pickup"
           /\ s.anchorUsedThisRoll
           /\ s.diceResult = 3
           /\ CurrentPlayer(s).position = 14
           /\ ~CurrentPlayer(s).anchorActive


\* The tiles below / above the start of the received call that nobody stands
\* on, and the n-th of them counted from the start
FreeBelow ==
  { t \in (received.currentPos + 1)..(received.boardSize - 1) :
      t \notin received.occupiedPositions }
FreeAbove ==
  { t \in 0..(received.currentPos - 1) : t \notin received.occupiedPositions }
NthBelow(n) == CHOOSE t \in FreeBelow : Cardinality({ u \in FreeBelow : u <= t }) = n
NthAbove(n) == CHOOSE t \in FreeAbove : Cardinality({ u \in FreeAbove : u >= t }) = n

\* C26: without obstacles computeDestination moving down s steps returns the
\* s-th unoccupied tile after the current position, or the last tile
\* (boardSize - 1) when the board has fewer of them; moving up it returns the
\* s-th unoccupied tile before the current position, or -1 when there are
\* fewer; occupied tiles are passed without a step being counted.
C26_Destination ==
  received.type = "computeDestination" =>
     /\ received.direction = "down" =>
           received.dest = IF Cardinality(FreeBelow) >= received.steps
                           THEN NthBelow(received.steps)
                           ELSE received.boardSize - 1
     /\ received.direction = "up" =>
           received.dest = IF Cardinality(FreeAbove) >= received.steps
                           THEN NthAbove(received.steps)
                           ELSE -1

\* A walk of two steps down from tile 0 with players on tiles 1 and 3 passed
\* both and ended on tile 4
C26_Witness ==
  /\ received.type = "computeDestination"
  /\ received.direction = "down"
  /\ received.currentPos = 0
  /\ received.steps = 2
  /\ received.occupiedPositions = {1, 3}
  /\ received.boardSize = 5
  /\ received.dest = 4


\* The tiles of s that hold a live sea monster, s a monster hunt
MonsterTiles(s) ==
  IF s.coop /\ s.mission = "monsters"
  THEN { i \in 0..(Len(s.chips) - 1) : ChipAt(s.chips, i) # Null /\ ChipAt(s.chips, i).monster }
  ELSE {}

NobodyOnMonster ==
  \A k \in Games :
     \A i \in Seats(rooms[k].state) :
        PlayerAt(rooms[k].state, i).position \notin MonsterTiles(rooms[k].state)

\* A roll moves the player neither onto nor across a sea monster
MonstersBlock ==
  RolledStep =>
     LET from == Mover.position
         dest == IF Logs("returned") THEN -1 ELSE Moved.position
     IN \A t \in MonsterTiles(Before) :
           /\ t # dest
           /\ ~(from < t /\ t < dest)
           /\ ~(dest < t /\ t < from)

\* C27: in a co-op monster hunt no player ever stands on the tile of a live
\* sea monster, and no move takes a player from one side of a live sea
\* monster to the other.
C27_MonstersBlock == []NobodyOnMonster /\ [][MonstersBlock]_vars

\* A, on tile 12, rolled 6 going down and was stopped on tile 13, in front
\* of the sea monster of tile 14
C27_Witness ==
  /\ received.type = "action"
  /\ received.action = "choose-direction"
  /\ \E k \in Games :
        LET s == rooms[k].state
        IN /\ 14 \in MonsterTiles(s)
           /\ s.turnPhase = "pickup"
           /\ s.diceResult = 6
           /\ CurrentPlayer(s).position = 13
           /\ CurrentPlayer(s).direction = "down"
           /\ Len(CurrentPlayer(s).carried) = 0
           /\ \E e \in DOMAIN logged : logged[e] = LogEntry("lands", CurrentPlayer(s).name, 13)


\* The accepted action ended a round and began the next
NewRoundStep == AcceptedStep /\ Logs("round-begins")

\* C28: when a round end does not end the game, round N = the old round + 1
\* begins with currentPlayerIndex = (N - 1) mod the number of players, the
\* phase 'direction' and the oxygen at STARTING_OXYGEN.
C28_NewRound ==
  [][NewRoundStep =>
       /\ After.round = Before.round + 1
       /\ After.currentPlayerIndex = (After.round - 1) % NumPlayers(After)
       /\ After.turnPhase = "direction"
       /\ After.oxygen = STARTING_OXYGEN
       /\ ~After.gameOver]_vars

\* An action of A ended round 1: round 2 began with seat 1, B
C28_Witness ==
  /\ received.type = "action"
  /\ Playing(roomForWs(received.ws))
  /\ LET room == rooms[roomForWs(received.ws)]
     IN /\ room.clients[received.ws].playerId = 0
        /\ room.state.round = 2
        /\ room.state.currentPlayerIndex = 1
        /\ room.state.turnPhase = "direction"
        /\ room.state.oxygen = STARTING_OXYGEN
  /\ \E e \in DOMAIN logged : logged[e] = LogEntry("round-begins", "B", 2)


\* Every player of s is as the round reset leaves it
PlayersReset(s) ==
  \A i \in Seats(s) :
     /\ PlayerAt(s, i).position = -1
     /\ PlayerAt(s, i).carried = <<>>
     /\ ~PlayerAt(s, i).dead
     /\ PlayerAt(s, i).depthCharges = DEPTH_CHARGES_PER_ROUND
     /\ ~PlayerAt(s, i).anchorActive

\* What the players have banked after the step is what they had banked
\* before it, but for the chips that the player whose return ended the round
\* brought home
BanksKept ==
  /\ \A i \in Seats(After) :
        PlayerAt(After, i).scored =
          IF ~Before.coop /\ Logs("returned") /\ i = Before.currentPlayerIndex
          THEN PlayerAt(Before, i).scored \o PlayerAt(Before, i).carried
          ELSE PlayerAt(Before, i).scored
  /\ After.coopScore =
        IF Before.coop /\ Logs("returned")
        THEN Before.coopScore + SumValues(Mover.carried)
        ELSE Before.coopScore

\* C29: after a round end every player has position -1, no chip in hand,
\* dead = false, depthCharges = DEPTH_CHARGES_PER_ROUND and anchorActive =
\* false, whether the game goes on or not; the reset changes neither the
\* chips a player has banked nor the shared pool.
C29_RoundReset == [][RoundOverStep => (PlayersReset(After) /\ BanksKept)]_vars

\* The oxygen ran out with both players under water: A lost seven chips and
\* B three, and round 2 began with everybody on the submarine
C29_Witness ==
  /\ received.type = "action"
  /\ received.action = "choose-direction"
  /\ \E e \in DOMAIN logged : logged[e] = LogEntry("underwater-loses", "A", 7)
  /\ \E e \in DOMAIN logged : logged[e] = LogEntry("underwater-loses", "B", 3)
  /\ \E k \in Games :
        /\ rooms[k].state.round = 2
        /\ PlayersReset(rooms[k].state)


\* dead is the flag of the players at -99, and of nobody else
DeadAreGone ==
  \A k \in Games :
     \A i \in Seats(rooms[k].state) :
        PlayerAt(rooms[k].state, i).dead <=> PlayerAt(rooms[k].state, i).position = -99

\* The turn is never with an eliminated player
DeadNeverCurrent ==
  \A k \in Games : rooms[k].started => ~CurrentPlayer(rooms[k].state).dead

\* An accepted action that does not end the round leaves the eliminated
\* players eliminated and where they are; an eliminated player blocks no
\* tile, and an attack on one is refused
DeadStayDead ==
  /\ (AcceptedStep /\ ~Logs("round-over")) =>
        \A i \in Seats(Before) :
           PlayerAt(Before, i).dead =>
              /\ PlayerAt(After, i).dead
              /\ PlayerAt(After, i).position = PlayerAt(Before, i).position
  /\ OnTurnStep =>
        \A i \in Seats(Before) :
           PlayerAt(Before, i).dead =>
              PlayerAt(Before, i).position \notin occupiedBy(Before.players, Mover.id)
  /\ (TridentAsked /\ Target # -1 /\ PlayerAt(Before, Target).dead) => rooms' = rooms

\* C30: in every reachable state dead = true exactly for the players at
\* position -99; an eliminated player never is the current player, blocks no
\* move and is no target of an attack, and its position and dead flag change
\* only in the reset at the end of the round.
C30_Eliminated == [](DeadAreGone /\ DeadNeverCurrent) /\ [][DeadStayDead]_vars

\* ... as long as a player of the game is alive
C30_EliminatedWhileOneLives ==
  /\ [](\A k \in Games :
          (rooms[k].started /\ Living(rooms[k].state) # {}) =>
             /\ ~CurrentPlayer(rooms[k].state).dead
             /\ \A i \in Seats(rooms[k].state) :
                   PlayerAt(rooms[k].state, i).dead <=>
                      PlayerAt(rooms[k].state, i).position = -99)
  /\ [][(ActionStep /\ Living(Before) # {}) => DeadStayDead]_vars


\* The step handles a 'skip-sub-turn' action of the current seat
SkipSubAsked == OnTurnStep /\ received'.action = "skip-sub-turn"

\* The living players of the game that stand on the board, the current
\* player left out
OthersDiving ==
  { i \in Living(Before) \ {Before.currentPlayerIndex} : PlayerAt(Before, i).position >= 0 }

\* Every living player is in the safe zone
AllLivingSafe == \A i \in Living(Before) : PlayerAt(Before, i).position = -1

SkipSubAccepted ==
  (SkipSubAsked /\ AcceptedStep) =>
     /\ Before.turnPhase = "direction"
     /\ Mover.position = -1
     /\ OthersDiving # {}

SkipSubRefused ==
  (SkipSubAsked /\ AllLivingSafe) =>
     /\ ~Handled(<< 1, 1, 1 >>).ok
     /\ rooms' = rooms
     /\ sent' = OnlyTo(received'.ws, ErrorMsg("Invalid action."))

\* C31: skip-sub-turn is accepted only in the direction phase, for a current
\* player in the safe zone, when at least one other living player is on the
\* board; it is rejected whenever every living player is in the safe zone.
C31_SkipSubTurn == [][SkipSubAccepted /\ SkipSubRefused]_vars

\* B dived and passed; A, on the submarine, stayed there and the turn went
\* back to B
C31_Witness ==
  /\ received.type = "action"
  /\ received.action = "skip-sub-turn"
  /\ \E k \in Games :
        LET s == rooms[k].state
        IN /\ \E e \in DOMAIN logged : logged[e] = LogEntry("stays", "A", 0)
           /\ NumPlayers(s) = 2
           /\ PlayerAt(s, 0).position = -1
           /\ PlayerAt(s, 1).position >= 0
           /\ s.currentPlayerIndex = 1
           /\ s.turnPhase = "direction"

\* The tile the current player stands on, and the tiles and the seats the
\* action has nothing to do with
MoverTile == Mover.position
OtherTiles == { t \in 0..(Len(Before.chips) - 1) : t # MoverTile }
OtherSeats == Seats(Before) \ {Before.currentPlayerIndex}

\* Nothing but the tile and the hand of the current player changed
RestKept ==
  /\ Len(After.chips) = Len(Before.chips)
  /\ \A t \in OtherTiles : ChipAt(After.chips, t) = ChipAt(Before.chips, t)
  /\ \A i \in OtherSeats : PlayerAt(After, i) = PlayerAt(Before, i)
  /\ Moved = [Mover EXCEPT !.carried = Moved.carried]

\* The chip of the tile, marked as seen, was put in the hand last
PickedUp ==
  (AcceptedStep /\ received'.action = "pick-up") =>
     /\ Before.turnPhase = "pickup"
     /\ MoverTile \in 0..(Len(Before.chips) - 1)
     /\ ChipAt(Before.chips, MoverTile) # Null
     /\ ~IsMonster(Before.chips, MoverTile)
     /\ ChipAt(After.chips, MoverTile) = Null
     /\ Moved.carried =
           Append(Mover.carried, [ChipAt(Before.chips, MoverTile) EXCEPT !.discovered = TRUE])
     /\ RestKept

\* The chip put in the hand last was laid on the empty tile
Dropped ==
  (AcceptedStep /\ received'.action = "drop") =>
     /\ Before.turnPhase = "pickup"
     /\ MoverTile \in 0..(Len(Before.chips) - 1)
     /\ Mover.carried # <<>>
     /\ ChipAt(Before.chips, MoverTile) = Null
     /\ ChipAt(After.chips, MoverTile) = Mover.carried[Len(Mover.carried)]
     /\ Moved.carried = SubSeq(Mover.carried, 1, Len(Mover.carried) - 1)
     /\ RestKept

\* C32: pick-up is accepted only in the pickup phase when the tile of the
\* current player holds a chip that is no sea monster, and then the tile is
\* null and that chip is the last of the player's carried list; drop is
\* accepted only when the player carries a chip and its tile is empty, and
\* then the chip picked up last lies on that tile; all other tiles and
\* players are unchanged.
C32_PickUpDrop == [][PickedUp /\ Dropped]_vars

\* A, carrying the chip of tile 1, moved to the emptied tile and dropped it
\* there
C32_Witness ==
  /\ received.type = "action"
  /\ received.action = "drop"
  /\ \E e \in DOMAIN logged : logged[e].tag = "drops"
  /\ \E k \in Games :
        LET s == rooms[k].state
        IN \E i \in Seats(s) :
              /\ PlayerAt(s, i).position >= 0
              /\ ChipAt(s.chips, PlayerAt(s, i).position) # Null
              /\ ChipAt(s.chips, PlayerAt(s, i).position).discovered
              /\ ChipAt(s.chips, PlayerAt(s, i).position).id # PlayerAt(s, i).position
              /\ s.currentPlayerIndex # i

\* The step handles a 'depth-charge' action of the current seat, and the
\* handler accepts it
ChargeAsked == AcceptedStep /\ received'.action = "depth-charge"

\* canDepthCharge, told of the state the action finds
ChargeAllowed ==
  /\ Before.turnPhase = "pickup"
  /\ MoverTile \in 0..(Len(Before.chips) - 1)
  /\ Mover.depthCharges >= 1
  /\ ChipAt(Before.chips, MoverTile) # Null
  /\ Before.oxygen >= DEPTH_CHARGE_OXYGEN_COST

\* The tiles of the board that hold a chip
Laden(chips) == { t \in 0..(Len(chips) - 1) : ChipAt(chips, t) # Null }

\* The chip on the tile of the current player is gone for good: the tile is
\* empty and no other tile, no hand and no bank has changed; where the
\* charge has ended the round, the new board has one chip less than the old
\* one and no bank has changed
ChipGone ==
  /\ ~Logs("round-over") =>
        /\ ChipAt(After.chips, MoverTile) = Null
        /\ \A t \in OtherTiles : ChipAt(After.chips, t) = ChipAt(Before.chips, t)
        /\ \A i \in Seats(Before) :
              /\ PlayerAt(After, i).carried = PlayerAt(Before, i).carried
              /\ PlayerAt(After, i).scored = PlayerAt(Before, i).scored
  /\ Logs("round-over") =>
        /\ Cardinality(Laden(After.chips)) = Cardinality(Laden(Before.chips)) - 1
        /\ \A i \in Seats(Before) : PlayerAt(After, i).scored = PlayerAt(Before, i).scored

\* What the charge costs: the oxygen it leaves is told by the log entry of
\* the explosion, and is the oxygen of the game unless the charge has used
\* the last of it and the round has ended in the same call
ChargeSpent ==
  /\ \E e \in DOMAIN logged' :
        logged'[e] = LogEntry("depth-charge", Mover.name, Before.oxygen - DEPTH_CHARGE_OXYGEN_COST)
  /\ ~Logs("round-over") =>
        /\ After.oxygen = Before.oxygen - DEPTH_CHARGE_OXYGEN_COST
        /\ Moved.depthCharges = Mover.depthCharges - 1
  /\ Logs("round-over") <=> Before.oxygen = DEPTH_CHARGE_OXYGEN_COST

ChargeStep == ChargeAsked => (ChargeAllowed /\ ChipGone /\ ChargeSpent)

\* No player holds more charges than a round gives
ChargesInRange ==
  \A k \in Games :
     \A i \in Seats(rooms[k].state) :
        PlayerAt(rooms[k].state, i).depthCharges \in 0..DEPTH_CHARGES_PER_ROUND

\* A player's charges come back only with a new round or a new game
ChargesStayUsed ==
  \A j \in DOMAIN rooms, k \in DOMAIN rooms' :
     (SameGameRoom(j, k) /\ received'.type \notin {"start", "restart"}
        /\ rooms'[k].state.round = rooms[j].state.round
        /\ ~rooms'[k].state.gameOver) =>
        \A i \in Seats(rooms[j].state) :
           PlayerAt(rooms'[k].state, i).depthCharges <= PlayerAt(rooms[j].state, i).depthCharges

\* C33: depth-charge is accepted only when the current player is on the
\* board, has a charge left, stands on a tile that holds a chip, and oxygen
\* is at least 3; the chip is then in the game no more, the player has one
\* charge less and oxygen is 3 less; within a round a player's charges never
\* grow and never exceed DEPTH_CHARGES_PER_ROUND, so no player detonates
\* more than that many in one round.
C33_DepthCharge == []ChargesInRange /\ [][ChargeStep /\ ChargesStayUsed]_vars

\* B, on a tile with a chip, blew the chip up
C33_Witness ==
  /\ received.type = "action"
  /\ received.action = "depth-charge"
  /\ \E e \in DOMAIN logged : logged[e].tag = "depth-charge" /\ logged[e].who = "B"
  /\ \E k \in Games :
        LET s == rooms[k].state
        IN /\ NumPlayers(s) = 2
           /\ PlayerAt(s, 1).depthCharges = 0
           /\ PlayerAt(s, 1).position >= 0
           /\ ChipAt(s.chips, PlayerAt(s, 1).position) = Null
           /\ s.currentPlayerIndex = 0

\* The step handles a 'buy-anchor' action of the current seat, and the
\* handler accepts it
AnchorBought == AcceptedStep /\ received'.action = "buy-anchor"

\* The sum of the values of the chips player i has banked
Banked(s, i) == SumValues(PlayerAt(s, i).scored)

\* Who may buy: a current player of the safe zone without an anchor
BuyerAllowed ==
  /\ Mover.position = -1
  /\ ~Mover.anchorActive
  /\ Moved.anchorActive

\* Versus: the buyer had at least ANCHOR_COST banked and has exactly that
\* much less, nobody else's bank has changed
PaidFromBank ==
  /\ Banked(Before, Before.currentPlayerIndex) >= ANCHOR_COST
  /\ Banked(After, Before.currentPlayerIndex) =
        Banked(Before, Before.currentPlayerIndex) - ANCHOR_COST
  /\ Banked(After, Before.currentPlayerIndex) >= 0
  /\ \A c \in DOMAIN Moved.scored : Moved.scored[c].value >= 0
  /\ \A i \in OtherSeats : PlayerAt(After, i).scored = PlayerAt(Before, i).scored
  /\ After.coopScore = Before.coopScore

\* Co-op: the pool held at least ANCHOR_COST and holds exactly that much
\* less, no bank has changed
PaidFromPool ==
  /\ Before.coopScore >= ANCHOR_COST
  /\ After.coopScore = Before.coopScore - ANCHOR_COST
  /\ After.coopScore >= 0
  /\ \A i \in Seats(Before) : PlayerAt(After, i).scored = PlayerAt(Before, i).scored

AnchorStep ==
  AnchorBought =>
     /\ BuyerAllowed
     /\ IF Before.coop THEN PaidFromPool ELSE PaidFromBank

PoolNotNegative == \A k \in Games : rooms[k].state.coopScore >= 0

\* C34: buy-anchor is accepted only for a current player in the safe zone
\* whose anchor is not active and whose funds are at least ANCHOR_COST; in
\* versus the player's banked total decreases by exactly ANCHOR_COST and is
\* not negative afterwards, in co-op the shared pool does; the shared pool
\* is negative in no reachable state.
C34_BuyAnchor == []PoolNotNegative /\ [][AnchorStep]_vars

\* A versus player paid for an anchor with a part of a banked chip
C34_Witness ==
  /\ received.type = "action"
  /\ received.action = "buy-anchor"
  /\ \E e \in DOMAIN logged : logged[e].tag = "anchor"
  /\ \E k \in Games :
        LET s == rooms[k].state
        IN /\ ~s.coop
           /\ CurrentPlayer(s).anchorActive
           /\ CurrentPlayer(s).position = -1
           /\ Len(s.chips) = BOARD_SIZE
           /\ ChipAt(s.chips, 12) # Null
           /\ CurrentPlayer(s).scored # <<>>
           /\ CurrentPlayer(s).scored[1].level = ChipAt(s.chips, 12).level
           /\ CurrentPlayer(s).scored[1].value = ChipAt(s.chips, 12).value - ANCHOR_COST

\* The started rooms
StartedRooms == { k \in DOMAIN rooms : rooms[k].started /\ rooms[k].state # NoState }

\* The seat a client holds is a seat of the game, and the player of that
\* seat bears the client's name
SeatOwned(k, c) ==
  /\ rooms[k].clients[c].playerId \in Seats(rooms[k].state)
  /\ PlayerAt(rooms[k].state, rooms[k].clients[c].playerId).name = rooms[k].clients[c].name

\* C35: in a started room the seat indices of the connected clients are
\* pairwise distinct, and each is an index of the game's players list whose
\* name is that client's name.
C35_SeatsSound ==
  \A k \in StartedRooms :
     /\ \A c \in DOMAIN rooms[k].clients : SeatOwned(k, c)
     /\ \A c1, c2 \in DOMAIN rooms[k].clients :
           c1 # c2 => rooms[k].clients[c1].playerId # rooms[k].clients[c2].playerId

\* The rooms whose clients map holds the connection
RoomsOf(ws) == { k \in DOMAIN rooms : ws \in DOMAIN rooms[k].clients }

\* A connection is in the clients map of one room at most
OneRoomEach == \A ws \in Conns : Cardinality(RoomsOf(ws)) <= 1

\* The roster of a lobby holds one name for each of its clients: the name
\* the client goes by
OneNameEach ==
  \A k \in DOMAIN rooms :
     ~rooms[k].started =>
        /\ Len(rooms[k].names) = Cardinality(DOMAIN rooms[k].clients)
        /\ \A c \in DOMAIN rooms[k].clients : InSeq(rooms[k].names, rooms[k].clients[c].name)

\* C36: each connection is a member of at most one room at any time: it is
\* in the clients map of one room at most, and in a room's roster under one
\* name only.
C36_OneRoomPerConnection == OneRoomEach /\ OneNameEach

\* C37: a room of the registry holds a game state if and only if it has
\* started, so no message handled while the room is a lobby creates one.
C37_StateIffStarted ==
  \A k \in DOMAIN rooms : (rooms[k].state # NoState) <=> rooms[k].started

\* ... one way round: a room that has started holds a game state
C37_StartedHaveState ==
  \A k \in DOMAIN rooms : rooms[k].started => rooms[k].state # NoState

\* The games that have started and are not over
RunningGames == { k \in StartedRooms : ~rooms[k].state.gameOver }

\* What the handlers answer to the move the current seat can always make: a
\* choose-direction in the direction phase, a skip in the pickup phase
MoveAnswer(s) ==
  IF s.turnPhase = "direction"
  THEN ACTION_HANDLERS("choose-direction", s, Payload("down", -1), 1, 1, 1)
  ELSE ACTION_HANDLERS("skip", s, NoPayload, 1, 1, 1)

CanMove ==
  \A k \in RunningGames :
     /\ rooms[k].state.turnPhase \in {"direction", "pickup"}
     /\ rooms[k].state.currentPlayerIndex \in Seats(rooms[k].state)
     /\ MoveAnswer(rooms[k].state).ok
     /\ MoveAnswer(rooms[k].state).st # rooms[k].state

\* Sent by the client of the current seat, that move is accepted
MoveTaken ==
  (OnTurnStep /\ ~Before.gameOver
     /\ \/ Before.turnPhase = "direction" /\ received'.action = "choose-direction"
        \/ Before.turnPhase = "pickup" /\ received'.action = "skip") =>
     /\ After # Before
     /\ \A c \in DOMAIN rooms[roomForWs(received'.ws)].clients :
           readyState[c] = OPEN =>
              /\ Len(sent'[c]) = 1
              /\ sent'[c][1].type = "state"

\* C38: the game never deadlocks: in every reachable state of a started game
\* that is not over, the phase is 'direction' or 'pickup' and an action of
\* the current seat is accepted there (choose-direction in the direction
\* phase, skip in the pickup phase).
C38_NoDeadlock == []CanMove /\ [][MoveTaken]_vars

\* Co-op: the last living player has slain itself and is still the current
\* player; its choose-direction was accepted and has left it in the pickup
\* phase, where a skip is accepted
C38_Witness ==
  /\ received.type = "action"
  /\ received.action = "choose-direction"
  /\ \E k \in RunningGames :
        LET s == rooms[k].state
        IN /\ Living(s) = {}
           /\ s.turnPhase = "pickup"
           /\ \E e \in DOMAIN logged : logged[e] = LogEntry("chooses", CurrentPlayer(s).name, 0)

\* gameOver and the phase 'gameOver' go together, and the round counter
\* stays within maxRounds
OverIsFinal ==
  \A k \in Games :
     /\ rooms[k].state.gameOver <=> rooms[k].state.turnPhase = "gameOver"
     /\ rooms[k].state.round \in 1..rooms[k].state.maxRounds

\* An action sent to a game that is over is refused, whoever sends it
OverRefuses ==
  (ActionStep /\ Before.gameOver) =>
     /\ rooms' = rooms
     /\ \/ sent' = OnlyTo(received'.ws, ErrorMsg("Not your turn."))
        \/ sent' = OnlyTo(received'.ws, ErrorMsg("Invalid action."))
        \/ sent' = OnlyTo(received'.ws, ErrorMsg("Unknown action."))

\* The state of a game that is over changes only when the host of its room
\* has the game set up anew
OverStays ==
  \A j \in DOMAIN rooms, k \in DOMAIN rooms' :
     (SameGameRoom(j, k) /\ rooms[j].started /\ rooms[j].state.gameOver
        /\ rooms'[k].state # rooms[j].state) =>
        /\ received'.type \in {"restart", "start"}
        /\ received'.ws = rooms[j].host
        /\ rooms'[k].state.round = 1
        /\ ~rooms'[k].state.gameOver

\* A versus game ends with the round maxRounds, and not before
VersusEndsLast ==
  \A j \in DOMAIN rooms, k \in DOMAIN rooms' :
     (SameGameRoom(j, k) /\ ~rooms[j].state.coop /\ ~rooms'[k].state.coop
        /\ ~rooms[j].state.gameOver /\ rooms'[k].state.gameOver) =>
        /\ rooms[j].state.round = rooms[j].state.maxRounds
        /\ rooms'[k].state.round = rooms'[k].state.maxRounds
        /\ Logs("round-over")

\* C39: once a game is over (gameOver true, phase 'gameOver') every gameplay
\* action from any seat is rejected and the game state does not change until
\* the creator of the room has the game set up anew; the round counter never
\* exceeds maxRounds, and a versus game becomes game-over only at the end of
\* round maxRounds.
C39_GameOverFinal == []OverIsFinal /\ [][OverRefuses /\ OverStays /\ VersusEndsLast]_vars

\* The winner of a versus game, its seat still the current one, asked for an
\* anchor after the end and was refused
C39_Witness ==
  /\ received.type = "action"
  /\ received.action = "buy-anchor"
  /\ sent = OnlyTo(received.ws, ErrorMsg("Invalid action."))
  /\ \E k \in StartedRooms :
        LET s == rooms[k].state
        IN /\ s.gameOver
           /\ ~s.coop
           /\ s.round = s.maxRounds
           /\ CurrentPlayer(s).position = -1
           /\ ~CurrentPlayer(s).anchorActive
           /\ Banked(s, s.currentPlayerIndex) >= ANCHOR_COST

\* The chips of a game, place by place: those on the tiles of the board, then
\* the hand and the bank of every player
RECURSIVE InHands(_)
InHands(players) ==
  IF players = <<>> THEN <<>> ELSE Head(players).carried \o InHands(Tail(players))

RECURSIVE InBanks(_)
InBanks(players) ==
  IF players = <<>> THEN <<>> ELSE Head(players).scored \o InBanks(Tail(players))

OnBoard(s) == LET NotNull(c) == c # Null IN SelectSeq(s.chips, NotNull)

AllChips(s) == OnBoard(s) \o InHands(s.players) \o InBanks(s.players)

ChipsOfLevel(cs, level) ==
  LET OfLevel(c) == c.level = level IN Len(SelectSeq(cs, OfLevel))

\* No id is borne by two chips of cs
DistinctIds(cs) == Cardinality({ cs[e].id : e \in DOMAIN cs }) = Len(cs)

\* The board has one slot for each of its boardSize indices, and a slot is
\* empty or holds one chip; no id is found twice among the chips of the board
\* and the hands, nor, while every chip bears the id it was made with (the
\* first round, before the board is renumbered), among those and the chips
\* of the banks; never are there more chips than were made
ChipsInPlace ==
  \A k \in Games :
     LET s == rooms[k].state
     IN /\ Len(s.chips) = s.boardSize
        /\ \A t \in 0..(s.boardSize - 1) :
              ChipAt(s.chips, t) = Null \/ ChipAt(s.chips, t).level \in 0..4
        /\ DistinctIds(OnBoard(s) \o InHands(s.players))
        /\ (s.round = 1 /\ ~s.gameOver) => DistinctIds(AllChips(s))
        /\ Len(AllChips(s)) <= Len(CHIP_LEVELS)

\* Within a game no step adds a chip: of no level are there more chips after
\* the step than before it, on the board, in the hands and in the banks
\* together
ChipsNeverGrow ==
  \A j \in DOMAIN rooms, k \in DOMAIN rooms' :
     (/\ SameGameRoom(j, k)
      /\ received'.type \notin {"start", "restart"}
      /\ rooms'[k].state # rooms[j].state) =>
        \E before \in { AllChips(rooms[j].state) }, after \in { AllChips(rooms'[k].state) } :
           /\ Len(after) <= Len(before)
           /\ \A level \in 0..4 : ChipsOfLevel(after, level) <= ChipsOfLevel(before, level)

\* C40: chips are conserved and never duplicated: each chip is in at most one
\* place (one board tile, one player's carried list or one player's scored
\* list), each board index holds at most one chip, and the number of chips on
\* the board, carried and scored together never increases within a game.
C40_ChipsConserved == []ChipsInPlace /\ [][ChipsNeverGrow]_vars

\* In a later round, the board renumbered and shorter than it was made, a
\* player has taken a chip from it
C40_Witness ==
  /\ received.type = "action"
  /\ received.action = "pick-up"
  /\ \E e \in DOMAIN logged : logged[e].tag = "picks-up"
  /\ \E k \in StartedRooms :
        LET s == rooms[k].state
        IN /\ s.round > 1
           /\ s.boardSize < Len(CHIP_LEVELS)
           /\ ~s.gameOver
           /\ \E i \in Seats(s) : Len(PlayerAt(s, i).carried) > 0
           /\ Len(AllChips(s)) < Len(CHIP_LEVELS)

====
